---- MODULE Spec2Model ----
(***************************************************************************)
(* Verification model of the kubedirect-ae serving plane: the              *)
(* RequestStats concurrency tracker, the KPA decider, the autoscaler work  *)
(* queue with its worker pool, and the gateway relay with the pod          *)
(* dispatcher.  Each component has its own specification over its own      *)
(* group of variables; a specification leaves the other groups untouched.  *)
(*   SpecStats  - metric.RequestStats                                      *)
(*   SpecKPA    - decider.KPADecider.Reconcile                             *)
(*   SpecAS     - autoscalerImpl: queue, workers, tickers, ReqIn           *)
(*   SpecGW     - gatewayImpl.relay + PodDispatcher (+ FairSpecGW)         *)
(*   SpecRelay  - gatewayImpl.relay of every key, statement by statement   *)
(***************************************************************************)
EXTENDS Integers, Sequences, FiniteSets, TLC

VARIABLES
    \* ---- metric.RequestStats (SpecStats, and the hook target in SpecGW)
    stats,        \* the RequestStats fields
    clock,        \* time.Now(), in whole seconds; 0 is the zero time.Time
    nReqIn,       \* completed ReqIn calls
    nReqOut,      \* completed ReqOut calls
    lastOp,       \* the last operation completed on stats and what it saw
    collector,    \* the Collector.Run goroutine: dormant, running or exited
    collCtxDone,  \* the context given to Collector.Run has ended
    sinceReport,  \* history: the calls SpecStats made since the last Report
    \* ---- decider.KPADecider (SpecKPA)
    kpaCfg,       \* parameters fixed by NewKPADecider
    panicTime,    \* KPADecider.panicTime; 0 is the zero time.Time
    maxPanicPods, \* KPADecider.maxPanicPods
    desiredScale, \* KPADecider.desiredScale
    delayWindow,  \* KPADecider.delayWindow (max.TimeWindow), or NoDelayWindow
    kpaNow,       \* the `now` of the last Reconcile
    kpaLast,      \* what the last Reconcile computed and what it was given
    \* ---- autoscalerImpl (SpecAS)
    queue,        \* workqueue: the ordered list of pending keys
    dirty,        \* workqueue: keys added and not yet handed out
    processing,   \* workqueue: keys handed out by Get and not yet Done
    shuttingDown, \* workqueue: ShutDown was called
    worker,       \* per worker goroutine: its position, its key and the kind
                  \* of failure its scale call ended with
    active,       \* per key: KPADecider.active (ticker and collector started)
    asDesired,    \* per key: the decider's stored desired scale
    asCtxDone,    \* the root context has ended
    runReturned,  \* autoscalerImpl.Run has returned
    addsSinceGet, \* per key: accepted Add calls since the key was last handed out
    nTickers,     \* per key: ticker goroutines started
    tickerExited, \* per key: its ticker goroutine has returned
    asAsync,      \* autoscalerImpl.async
    asStarted,    \* autoscalerImpl.runCtx is set (Run has started)
    asCrashed,    \* the process died of a panic
    \* ---- gatewayImpl.relay and PodDispatcher (SpecGW)
    externalInput,  \* externalInputs[Key]: requests enqueued by clients
    internalInput,  \* internalInputBuffers[Key]
    internalOutput, \* internalOutputBuffers[Key]
    externalOutput, \* the shared fan-in of responses
    tokens,         \* PodDispatcher.tokens, a FIFO of endpoint identities
    endpoints,      \* PodDispatcher.endpoints: the identities that have an executor
    disp,           \* per request: the position of its Dispatch goroutine
    rec,            \* the PodDispatcher.Reconcile call in progress, if any
    gwStarted,      \* k8sGateway.Start has launched the goroutines
    relayExited,    \* the relay goroutine has returned
    pdExited,       \* PodDispatcher.Run has returned
    runCtx,         \* autoscalerImpl.runCtx has been stored by Run
    crashed,        \* the process died of a panic
    ctxDone,        \* the root context is cancelled
    nextReq,        \* the next request ID a client will use
    nRec,           \* number of Reconcile calls made so far
    everRemoved,    \* identities some Reconcile has removed from endpoints
    \* ---- gatewayImpl.relay, one goroutine per key (SpecRelay)
    rExternalInputs,  \* per key: externalInputs[key]
    rInternalInputs,  \* per key: internalInputBuffers[key]
    rInternalOutputs, \* per key: internalOutputBuffers[key]
    rExternalOutput,  \* the shared fan-in of responses
    relayPc,          \* per key: the statement its relay goroutine is at
    relayReq,         \* per key: the local variable req of its relay goroutine
    hookLog,          \* what the onReqIn and onReqOut functions recorded
    rNextReq,         \* the next request ID a client will use
    rCtxDone,         \* the root context is cancelled
    \* ---- backend.grpcBackend, one executor (FairSpecGrpc)
    connectionPool,   \* number of entries waiting in the connectionPool FIFO
    checkedOut,       \* number of Execute calls that hold a pool entry
    creating,         \* number of Execute calls between newClient and <-Out()
    closing           \* where the goroutine of Close is: none, range, returned

statsVars == <<stats, clock, nReqIn, nReqOut, lastOp, collector, collCtxDone, sinceReport>>
kpaVars == <<kpaCfg, panicTime, maxPanicPods, desiredScale, delayWindow, kpaNow, kpaLast>>
asVars == <<queue, dirty, processing, shuttingDown, worker, active, asDesired,
            asCtxDone, runReturned, addsSinceGet, nTickers, tickerExited,
            asAsync, asStarted, asCrashed>>
gwVars == <<externalInput, internalInput, internalOutput, externalOutput, tokens,
            endpoints, disp, rec, gwStarted, relayExited, pdExited, runCtx, crashed,
            ctxDone, nextReq, nRec, everRemoved>>
relayVars == <<rExternalInputs, rInternalInputs, rInternalOutputs, rExternalOutput,
               relayPc, relayReq, hookLog, rNextReq, rCtxDone>>
grpcVars == <<connectionPool, checkedOut, creating, closing>>
vars == <<statsVars, kpaVars, asVars, gwVars, relayVars, grpcVars>>

\* what a component leaves alone: the variables of the others
NotStats == <<kpaVars, asVars, gwVars, relayVars, grpcVars>>
NotKPA == <<statsVars, asVars, gwVars, relayVars, grpcVars>>
NotAS == <<statsVars, kpaVars, gwVars, relayVars, grpcVars>>
NotGW == <<kpaVars, asVars, relayVars, grpcVars>>
NotRelay == <<statsVars, kpaVars, asVars, gwVars, grpcVars>>
NotGrpc == <<statsVars, kpaVars, asVars, gwVars, relayVars>>

Nil == "nil"

Max(a, b) == IF a >= b THEN a ELSE b
Min(a, b) == IF a <= b THEN a ELSE b

\* math.Ceil(a / b) and math.Floor(a / b) for a >= 0, b > 0
CeilDiv(a, b) == (a + b - 1) \div b
FloorDiv(a, b) == a \div b

(***************************************************************************)
(* metric.RequestStats                                                     *)
(***************************************************************************)

\* bounds of SpecStats
MaxClock == 3
MaxCalls == 3

\* NewRequestStats: every field at its zero value
NewRequestStats ==
    [concurrency |-> 0, concurrencyIntegral |-> 0, requestCount |-> 0,
     lastChange |-> 0, secondsInUse |-> 0]

\* a Move that would advance for every now, also one in the past
Move_unguarded(s, now) ==
    IF s.lastChange = 0
    THEN [s EXCEPT !.lastChange = now]
    ELSE [s EXCEPT !.secondsInUse = @ + (now - s.lastChange),
                   !.concurrencyIntegral = @ + s.concurrency * (now - s.lastChange),
                   !.lastChange = now]

\* RequestStats.Move(now)
Move(s, now) ==
    IF s.lastChange = 0
    THEN [s EXCEPT !.lastChange = now]
    ELSE IF now - s.lastChange > 0
         THEN [s EXCEPT !.secondsInUse = @ + (now - s.lastChange),
                        !.concurrencyIntegral = @ + s.concurrency * (now - s.lastChange),
                        !.lastChange = now]
         ELSE s

\* a reset that would keep requestCount
reset_keepsRequestCount(s) ==
    [s EXCEPT !.concurrencyIntegral = 0, !.secondsInUse = 0]

\* a reset that would clear concurrency as well
reset_alsoConcurrency(s) ==
    [s EXCEPT !.concurrencyIntegral = 0, !.requestCount = 0, !.secondsInUse = 0,
              !.concurrency = 0]

\* RequestStats.reset(): clears the window accumulators, keeps concurrency and
\* lastChange
reset(s) ==
    [s EXCEPT !.concurrencyIntegral = 0, !.requestCount = 0, !.secondsInUse = 0]

\* RequestStats.ReqIn: the state it leaves (it returns the new concurrency)
StatsReqIn(s, now) ==
    LET m == Move(s, now)
    IN [m EXCEPT !.concurrency = @ + 1, !.requestCount = @ + 1]

\* RequestStats.ReqOut: the state it leaves (it returns the new concurrency)
StatsReqOut(s, now) ==
    LET m == Move(s, now)
    IN [m EXCEPT !.concurrency = @ - 1]

\* a Report that would read the accumulators without advancing them
ReportOf_beforeMove(s, now) ==
    [RequestCount |-> s.requestCount,
     AverageNum |-> IF s.secondsInUse > 0 THEN s.concurrencyIntegral ELSE 0,
     AverageDen |-> IF s.secondsInUse > 0 THEN s.secondsInUse ELSE 1]

\* RequestStats.Report(now): the report, AverageConcurrency as the fraction
\* concurrencyIntegral / secondsInUse (0 when secondsInUse = 0)
ReportOf(s, now) ==
    LET m == Move(s, now)
    IN [RequestCount |-> m.requestCount,
        AverageNum |-> IF m.secondsInUse > 0 THEN m.concurrencyIntegral ELSE 0,
        AverageDen |-> IF m.secondsInUse > 0 THEN m.secondsInUse ELSE 1]

\* RequestStats.Report(now): the state it leaves
StatsReport(s, now) == reset(Move(s, now))

\* RequestStats.InstantConcurrency()
InstantConcurrency(s) == s.concurrency

NoOp == [op |-> "none", before |-> NewRequestStats, now |-> 0, ret |-> 0]

\* the calls made since the last Report (since NewRequestStats when reported
\* is FALSE): start is the state that Report left, ins and outs count the
\* ReqIn and ReqOut calls, inOrder says that no ReqIn came after a ReqOut and
\* that no ReqOut came without a request in flight, trip is K when the last
\* Report closed a round trip (a Report that left concurrency 0, K ReqIn, K
\* ReqOut, that Report) and -1 otherwise
SinceNew ==
    [reported |-> FALSE, start |-> NewRequestStats, ins |-> 0, outs |-> 0,
     inOrder |-> TRUE, trip |-> -1]

RoundTrip(h) ==
    h.reported /\ h.start.concurrency = 0 /\ h.inOrder /\ h.ins = h.outs

SinceReported(h, s) ==
    [reported |-> TRUE, start |-> s, ins |-> 0, outs |-> 0, inOrder |-> TRUE,
     trip |-> IF RoundTrip(h) THEN h.ins ELSE -1]

\* time.Now() advances between calls
StatsTick ==
    /\ clock < MaxClock
    /\ clock' = clock + 1
    /\ UNCHANGED <<stats, nReqIn, nReqOut, lastOp, collector, collCtxDone, sinceReport>>
    /\ UNCHANGED NotStats

DoReqIn ==
    /\ nReqIn < MaxCalls
    /\ stats' = StatsReqIn(stats, clock)
    /\ nReqIn' = nReqIn + 1
    /\ lastOp' = [op |-> "ReqIn", before |-> stats, now |-> clock,
                  ret |-> StatsReqIn(stats, clock).concurrency]
    /\ sinceReport' = [sinceReport EXCEPT !.ins = @ + 1,
                                           !.inOrder = @ /\ sinceReport.outs = 0]
    /\ UNCHANGED <<collector, collCtxDone, clock, nReqOut>>
    /\ UNCHANGED NotStats

\* ReqOut has no guard on concurrency: it is callable at any time
DoReqOut ==
    /\ nReqOut < MaxCalls
    /\ stats' = StatsReqOut(stats, clock)
    /\ nReqOut' = nReqOut + 1
    /\ lastOp' = [op |-> "ReqOut", before |-> stats, now |-> clock,
                  ret |-> StatsReqOut(stats, clock).concurrency]
    /\ sinceReport' = [sinceReport EXCEPT
                        !.outs = @ + 1,
                        !.inOrder = @ /\ sinceReport.outs < sinceReport.ins]
    /\ UNCHANGED <<collector, collCtxDone, clock, nReqIn>>
    /\ UNCHANGED NotStats

\* Report(now): now is the ticker's time, which may lie before the last change
DoReport ==
    /\ \E now \in 1..clock :
        /\ stats' = StatsReport(stats, now)
        /\ lastOp' = [op |-> "Report", before |-> stats, now |-> now,
                      ret |-> ReportOf(stats, now)]
    /\ sinceReport' = SinceReported(sinceReport, stats')
    /\ UNCHANGED <<collector, collCtxDone, clock, nReqIn, nReqOut>>
    /\ UNCHANGED NotStats

DoInstantConcurrency ==
    /\ lastOp' = [op |-> "InstantConcurrency", before |-> stats, now |-> clock,
                  ret |-> InstantConcurrency(stats)]
    /\ UNCHANGED <<stats, clock, nReqIn, nReqOut, collector, collCtxDone, sinceReport>>
    /\ UNCHANGED NotStats

\* KPADecider.Activate wins the compare-and-swap: go k.Collector.Run(ctx)
CollectorActivate ==
    /\ collector = "dormant"
    /\ collector' = "running"
    /\ UNCHANGED <<stats, clock, nReqIn, nReqOut, lastOp, collCtxDone, sinceReport>>
    /\ UNCHANGED NotStats

\* Collector.Run, case now := <-ticker.C: collect calls Report(now)
Collect ==
    /\ collector = "running"
    /\ \E now \in 1..clock :
        /\ stats' = StatsReport(stats, now)
        /\ lastOp' = [op |-> "Report", before |-> stats, now |-> now,
                      ret |-> ReportOf(stats, now)]
    /\ sinceReport' = SinceReported(sinceReport, stats')
    /\ UNCHANGED <<clock, nReqIn, nReqOut, collector, collCtxDone>>
    /\ UNCHANGED NotStats

\* the context given to Collector.Run ends
CollectorCancel ==
    /\ ~collCtxDone
    /\ collCtxDone' = TRUE
    /\ UNCHANGED <<stats, clock, nReqIn, nReqOut, lastOp, collector, sinceReport>>
    /\ UNCHANGED NotStats

\* Collector.Run, case <-ctx.Done(): return
CollectorExit ==
    /\ collector = "running" /\ collCtxDone
    /\ collector' = "exited"
    /\ UNCHANGED <<stats, clock, nReqIn, nReqOut, lastOp, collCtxDone, sinceReport>>
    /\ UNCHANGED NotStats

StatsInit ==
    /\ stats = NewRequestStats
    /\ clock = 1
    /\ nReqIn = 0
    /\ nReqOut = 0
    /\ lastOp = NoOp
    /\ collector = "dormant"
    /\ collCtxDone = FALSE
    /\ sinceReport = SinceNew

StatsNext ==
    \/ StatsTick
    \/ DoReqIn
    \/ DoReqOut
    \/ DoReport
    \/ DoInstantConcurrency
    \/ CollectorActivate
    \/ Collect
    \/ CollectorCancel
    \/ CollectorExit

(***************************************************************************)
(* decider.KPADecider                                                      *)
(***************************************************************************)

\* bounds of SpecKPA
MaxNow == 4
MaxReady == 2
MaxObs == 3
MaxInstant == 1

\* A rate r is the fraction r[1] / r[2].  The parameter sets NewKPADecider is
\* given here: targetValue > 0, both rates > 1, panicThreshold >= 1,
\* scaleDownDelay 0 (no delay window) or positive, windows in seconds; one of
\* them has a tickInterval of 2 seconds under a scaleDownDelay of 4.
KPAConfigs ==
    { [targetValue |-> t[1], maxScaleUpRate |-> t[2], maxScaleDownRate |-> <<2, 1>>,
       stableWindow |-> 2, panicThreshold |-> <<2, 1>>, scaleDownDelay |-> d,
       tickInterval |-> 1] : t \in {<<1, <<2, 1>>>>, <<2, <<3, 2>>>>}, d \in {0, 2} }
    \cup
    { [targetValue |-> 1, maxScaleUpRate |-> <<2, 1>>, maxScaleDownRate |-> <<2, 1>>,
       stableWindow |-> 2, panicThreshold |-> <<2, 1>>, scaleDownDelay |-> 4,
       tickInterval |-> 2] }

\* max.NewTimeWindow(duration, granularity): ceil(duration/granularity) slots,
\* none written yet
NewTimeWindow(duration, granularity) ==
    [n |-> CeilDiv(duration, granularity),
     granularity |-> granularity,
     last |-> -1,
     slots |-> [i \in 0..(CeilDiv(duration, granularity) - 1) |-> [epoch |-> -1, value |-> 0]]]

\* TimeWindow.Record(now, value): the slot of index now/granularity keeps the
\* maximum recorded in its epoch
TimeWindowRecord(w, now, value) ==
    LET idx == now \div w.granularity
        slot == idx % w.n
        old == w.slots[slot]
    IN [w EXCEPT !.last = idx,
                 !.slots[slot] = IF old.epoch = idx
                                 THEN [epoch |-> idx, value |-> Max(old.value, value)]
                                 ELSE [epoch |-> idx, value |-> value]]

\* a Current() that would return the value recorded last
TimeWindowCurrent_latest(w) == w.slots[w.last % w.n].value

\* TimeWindow.Current(): the maximum over the slots still inside the window
TimeWindowCurrent(w) ==
    LET valid == {i \in DOMAIN w.slots :
                    w.slots[i].epoch >= 0 /\ w.slots[i].epoch > w.last - w.n}
    IN IF valid = {} THEN 0
       ELSE CHOOSE v \in {w.slots[i].value : i \in valid} :
                \A i \in valid : w.slots[i].value <= v

\* the nil *TimeWindow
NoDelayWindow ==
    [n |-> 0, granularity |-> 1, last |-> -1,
     slots |-> [i \in {} |-> [epoch |-> -1, value |-> 0]]]

HasDelayWindow(w) == w.n > 0

\* NewKPADecider: the delay window exists only when scaleDownDelay > 0
NewDelayWindow(cfg) ==
    IF cfg.scaleDownDelay > 0
    THEN NewTimeWindow(cfg.scaleDownDelay, cfg.tickInterval)
    ELSE NoDelayWindow

\* Reconcile: up := math.Ceil(maxScaleUpRate * currentReady), raised to 1 when
\* scaling from zero with instant concurrency
Upperbound(cfg, ready, fromZero, instant) ==
    LET up == CeilDiv(cfg.maxScaleUpRate[1] * ready, cfg.maxScaleUpRate[2])
    IN IF fromZero /\ instant > 0 THEN Max(up, 1) ELSE up

\* a lower bound that would not be raised when scaling from zero
Lowerbound_noKick(cfg, ready, fromZero, instant) ==
    FloorDiv(ready * cfg.maxScaleDownRate[2], cfg.maxScaleDownRate[1])

\* a lower bound that would round up
Lowerbound_ceil(cfg, ready, fromZero, instant) ==
    LET low == CeilDiv(ready * cfg.maxScaleDownRate[2], cfg.maxScaleDownRate[1])
    IN IF fromZero /\ instant > 0 THEN Max(low, 1) ELSE low

\* Reconcile: low := math.Floor(currentReady / maxScaleDownRate), raised to 1
\* when scaling from zero with instant concurrency
Lowerbound(cfg, ready, fromZero, instant) ==
    LET low == FloorDiv(ready * cfg.maxScaleDownRate[2], cfg.maxScaleDownRate[1])
    IN IF fromZero /\ instant > 0 THEN Max(low, 1) ELSE low

\* a clamp that would leave out the lower bound
ClampPods_noLower(x, lowerbound, upperbound) == Min(x, upperbound)

\* a clamp that would leave out the upper bound
ClampPods_noUpper(x, lowerbound, upperbound) == Max(x, lowerbound)

\* Reconcile: int(math.Min(math.Max(x, lowerbound), upperbound))
ClampPods(x, lowerbound, upperbound) == Min(Max(x, lowerbound), upperbound)

\* Reconcile: the panicTime after the panic-detection step
\* a panic exit that would already happen at panicTime + stableWindow
NextPanicTime_atEquality(cfg, pt, now, over) ==
    IF over THEN now
    ELSE IF pt # 0 /\ pt + cfg.stableWindow <= now THEN 0
    ELSE pt

\* a panic detection that would not extend a panic already begun
NextPanicTime_noRefresh(cfg, pt, now, over) ==
    IF pt = 0 /\ over THEN now
    ELSE IF pt # 0 /\ ~over /\ pt + cfg.stableWindow < now THEN 0
    ELSE pt

NextPanicTime(cfg, pt, now, over) ==
    IF pt = 0 /\ over THEN now
    ELSE IF over THEN now
    ELSE IF pt # 0 /\ ~over /\ pt + cfg.stableWindow < now THEN 0
    ELSE pt

\* Reconcile: the maxPanicPods after the panic-detection step
PanicPodsAfterDetection(cfg, pt, mpp, now, over) ==
    IF ~(pt = 0 /\ over) /\ ~over /\ pt # 0 /\ pt + cfg.stableWindow < now
    THEN 0 ELSE mpp

\* a panic mode that would never raise maxPanicPods
RaisePanicPods_keep(mpp, desiredPodCount) == mpp

\* a panic mode that would follow the desired count down
RaisePanicPods_follow(mpp, desiredPodCount) == desiredPodCount

\* Reconcile, panic mode: maxPanicPods only grows
RaisePanicPods(mpp, desiredPodCount) ==
    IF desiredPodCount > mpp THEN desiredPodCount ELSE mpp

\* KPADecider.Reconcile(ctx, now, currentReady), given what the collector
\* reports: the decider state it leaves and the value it returns
KPAReconcile(cfg, pt, mpp, dw, now, currentReadyIn, stable, panic, instant) ==
    LET isScalingFromZero == currentReadyIn = 0
        currentReady == Max(1, currentReadyIn)
        upperbound == Upperbound(cfg, currentReady, isScalingFromZero, instant)
        lowerbound == Lowerbound(cfg, currentReady, isScalingFromZero, instant)
        dspc == CeilDiv(stable, cfg.targetValue)
        dppc == CeilDiv(panic, cfg.targetValue)
        desiredStablePodCount == ClampPods(dspc, lowerbound, upperbound)
        desiredPanicPodCount == ClampPods(dppc, lowerbound, upperbound)
        \* dppc / currentReady >= panicThreshold
        isOverPanicThreshold ==
            dppc * cfg.panicThreshold[2] >= cfg.panicThreshold[1] * currentReady
        pt1 == NextPanicTime(cfg, pt, now, isOverPanicThreshold)
        mpp1 == PanicPodsAfterDetection(cfg, pt, mpp, now, isOverPanicThreshold)
        candidate == Max(desiredStablePodCount, desiredPanicPodCount)
        mpp2 == IF pt1 # 0 THEN RaisePanicPods(mpp1, candidate) ELSE mpp1
        preDelay == IF pt1 # 0 THEN mpp2 ELSE desiredStablePodCount
        dw1 == IF HasDelayWindow(dw) THEN TimeWindowRecord(dw, now, preDelay) ELSE dw
        desiredPodCount == IF HasDelayWindow(dw) THEN TimeWindowCurrent(dw1) ELSE preDelay
    IN [panicTime |-> pt1, maxPanicPods |-> mpp2, delayWindow |-> dw1,
        desired |-> desiredPodCount, preDelay |-> preDelay,
        upperbound |-> upperbound, lowerbound |-> lowerbound,
        dspc |-> dspc, dppc |-> dppc, over |-> isOverPanicThreshold,
        desiredStable |-> desiredStablePodCount, desiredPanic |-> desiredPanicPodCount]

NoReconcile ==
    [called |-> FALSE, currentReady |-> 0, dspc |-> 0, dppc |-> 0, instant |-> 0,
     preDelay |-> 0, now |-> 0, quiet |-> 0]

\* One call of Reconcile by the worker that owns the key: time has moved on (or
\* not) since the last call, the cluster reports currentReady ready pods and the
\* collector reports the three concurrency values.
DoReconcile ==
    /\ UNCHANGED <<kpaCfg, NotKPA>>
    /\ \E now \in Max(1, kpaNow)..MaxNow, currentReady \in 0..MaxReady,
       stable \in 0..MaxObs, panic \in 0..MaxObs, instant \in 0..MaxInstant :
        \E r \in {KPAReconcile(kpaCfg, panicTime, maxPanicPods, delayWindow,
                               now, currentReady, stable, panic, instant)} :
           /\ panicTime' = r.panicTime
           /\ maxPanicPods' = r.maxPanicPods
           /\ delayWindow' = r.delayWindow
           /\ desiredScale' = r.desired
           /\ kpaNow' = now
           /\ kpaLast' = [called |-> TRUE, currentReady |-> currentReady,
                          dspc |-> r.dspc, dppc |-> r.dppc, instant |-> instant,
                          preDelay |-> r.preDelay, now |-> now, quiet |-> 0]

\* bounds of FairSpecQuiet: the load ends by MaxLoadNow, and MaxQuietTicks
\* ticks follow it
MaxLoadNow == 2
MaxQuietTicks == 12

\* One tick of tickAutoScaler for a target without requests: the worker calls
\* Reconcile a tickInterval later, the collector reports 0 for the three
\* concurrency values (their windows hold no request any more), and the
\* cluster has caught up: currentReady is what the previous call returned.
QuietTick ==
    /\ UNCHANGED <<kpaCfg, NotKPA>>
    /\ kpaLast.called /\ kpaLast.quiet < MaxQuietTicks
    /\ \E now \in {kpaNow + kpaCfg.tickInterval} :
        /\ kpaNow' = now
        /\ \E r \in {KPAReconcile(kpaCfg, panicTime, maxPanicPods, delayWindow,
                                  now, desiredScale, 0, 0, 0)} :
          /\ panicTime' = r.panicTime
          /\ maxPanicPods' = r.maxPanicPods
          /\ delayWindow' = r.delayWindow
          /\ desiredScale' = r.desired
          /\ kpaLast' = [called |-> TRUE, currentReady |-> desiredScale,
                         dspc |-> r.dspc, dppc |-> r.dppc, instant |-> 0,
                         preDelay |-> r.preDelay, now |-> now,
                         quiet |-> kpaLast.quiet + 1]

\* requests come and go until MaxLoadNow, then none is left and none arrives;
\* at every call the cluster has as many ready pods as the call before returned
QuietNext ==
    \/ /\ DoReconcile
       /\ kpaLast.quiet = 0 /\ kpaNow' <= MaxLoadNow
       /\ kpaLast'.currentReady = desiredScale
    \/ QuietTick

KPAInit ==
    /\ kpaCfg \in KPAConfigs
    /\ panicTime = 0
    /\ maxPanicPods = 0
    /\ desiredScale = 0
    /\ delayWindow = NewDelayWindow(kpaCfg)
    /\ kpaNow = 0
    /\ kpaLast = NoReconcile

KPANext == DoReconcile

(***************************************************************************)
(* autoscalerImpl: the work queue, the worker pool, the tickers, ReqIn     *)
(***************************************************************************)

\* bounds of SpecAS (the program runs maxConcurrentScalers = 16 workers)
MaxWorkers == 3
MaxAdds == 2
MaxDesired == 1

Keys == {"k1", "k2"}
Workers == 1..MaxWorkers

Count(seq, x) == Cardinality({i \in DOMAIN seq : seq[i] = x})

\* The work queue as one value
TheQueue ==
    [queue |-> queue, dirty |-> dirty, processing |-> processing,
     shuttingDown |-> shuttingDown]

\* workqueue Add(key): dropped after ShutDown; a key already dirty is not added
\* again; a key being processed is only marked dirty
QueueAdd(q, key) ==
    IF q.shuttingDown THEN q
    ELSE IF key \in q.dirty THEN q
    ELSE IF key \in q.processing THEN [q EXCEPT !.dirty = @ \cup {key}]
    ELSE [q EXCEPT !.dirty = @ \cup {key}, !.queue = Append(@, key)]

\* workqueue Get(): hands out the head of the queue (the caller has waited for
\* a non-empty queue)
QueueGet(q) ==
    [q EXCEPT !.queue = Tail(@),
              !.processing = @ \cup {Head(q.queue)},
              !.dirty = @ \ {Head(q.queue)}]

\* workqueue Done(key): a key marked dirty while it was processed is queued now
QueueDone(q, key) ==
    IF key \in q.dirty
    THEN [q EXCEPT !.processing = @ \ {key}, !.queue = Append(@, key)]
    ELSE [q EXCEPT !.processing = @ \ {key}]

SetQueue(q) ==
    /\ queue' = q.queue
    /\ dirty' = q.dirty
    /\ processing' = q.processing
    /\ shuttingDown' = q.shuttingDown

\* the ghost count of the Add calls the queue accepted for key
CountAdd(key) ==
    addsSinceGet' = IF shuttingDown THEN addsSinceGet
                    ELSE [addsSinceGet EXCEPT ![key] = Min(@ + 1, MaxAdds)]

ASAlive == ~asCrashed

\* autoscalerImpl.Run: stores runCtx and starts the workers
ASRun ==
    /\ ASAlive /\ ~asStarted
    /\ asStarted' = TRUE
    /\ worker' = [w \in Workers |-> [pc |-> "get", key |-> Nil, failure |-> Nil, desired |-> -1]]
    /\ UNCHANGED <<queue, dirty, processing, shuttingDown, active, asDesired, asCtxDone,
                   runReturned, addsSinceGet, nTickers, tickerExited, asAsync, asCrashed>>
    /\ UNCHANGED NotAS

\* the root context ends
ASCancel ==
    /\ ASAlive /\ ~asCtxDone
    /\ asCtxDone' = TRUE
    /\ UNCHANGED <<queue, dirty, processing, shuttingDown, worker, active, asDesired,
                   runReturned, addsSinceGet, nTickers, tickerExited, asAsync, asStarted,
                   asCrashed>>
    /\ UNCHANGED NotAS

\* a Run that would return without shutting the queue down
ASRunReturn_noShutDown ==
    /\ ASAlive /\ asStarted /\ asCtxDone /\ ~runReturned
    /\ runReturned' = TRUE
    /\ UNCHANGED <<queue, dirty, processing, shuttingDown, worker, active, asDesired,
                   asCtxDone, addsSinceGet, nTickers, tickerExited, asAsync, asStarted,
                   asCrashed>>
    /\ UNCHANGED NotAS

\* autoscalerImpl.Run: <-ctx.Done() returned; the deferred queue.ShutDown() runs
ASRunReturn ==
    /\ ASAlive /\ asStarted /\ asCtxDone /\ ~runReturned
    /\ shuttingDown' = TRUE
    /\ runReturned' = TRUE
    /\ UNCHANGED <<queue, dirty, processing, worker, active, asDesired, asCtxDone,
                   addsSinceGet, nTickers, tickerExited, asAsync, asStarted, asCrashed>>
    /\ UNCHANGED NotAS

\* a processNextItem that would call Done right after Get
WorkerGet_doneAtOnce(w) ==
    /\ ASAlive /\ worker[w].pc = "get" /\ queue # <<>>
    /\ SetQueue(QueueDone(QueueGet(TheQueue), Head(queue)))
    /\ worker' = [worker EXCEPT ![w] = [pc |-> "scale", key |-> Head(queue), failure |-> Nil, desired |-> -1]]
    /\ addsSinceGet' = [addsSinceGet EXCEPT ![Head(queue)] = 0]
    /\ UNCHANGED <<active, asDesired, asCtxDone, runReturned, nTickers, tickerExited,
                   asAsync, asStarted, asCrashed>>
    /\ UNCHANGED NotAS

\* processNextItem: queue.Get() returned a key; Done and Forget are deferred
WorkerGet(w) ==
    /\ ASAlive /\ worker[w].pc = "get" /\ queue # <<>>
    /\ SetQueue(QueueGet(TheQueue))
    /\ worker' = [worker EXCEPT ![w] = [pc |-> "scale", key |-> Head(queue), failure |-> Nil, desired |-> -1]]
    /\ addsSinceGet' = [addsSinceGet EXCEPT ![Head(queue)] = 0]
    /\ UNCHANGED <<active, asDesired, asCtxDone, runReturned, nTickers, tickerExited,
                   asAsync, asStarted, asCrashed>>
    /\ UNCHANGED NotAS

\* processNextItem: queue.Get() reported shutdown; workerLoop returns
WorkerExit(w) ==
    /\ ASAlive /\ worker[w].pc = "get" /\ queue = <<>> /\ shuttingDown
    /\ worker' = [worker EXCEPT ![w].pc = "exited"]
    /\ UNCHANGED <<queue, dirty, processing, shuttingDown, active, asDesired, asCtxDone,
                   runReturned, addsSinceGet, nTickers, tickerExited, asAsync, asStarted,
                   asCrashed>>
    /\ UNCHANGED NotAS

\* The texts behind err.Error(), as sequences of words.  k1 stands for a
\* deployment such as default/app, k2 for one such as default/mvcc-bench.
KeyText ==
    [k \in Keys |-> IF k = "k1" THEN <<"default", "app">>
                    ELSE <<"default", "mvcc", "bench">>]

\* what the cluster client reports: a transient failure, or the storage
\* failure of etcd that the check in processNextItem is meant for
ClientErrText(cause) ==
    IF cause = "corruption" THEN <<"etcdserver", "mvcc", "corrupt">>
    ELSE <<"connection", "refused">>

NoError == <<>>

\* the error scale returns: its own fmt.Errorf texts, or what scaler.Scale
\* returned (DeploymentScaler.Scale); outcome = <<failing step, kind of failure>>
ScaleError(key, outcome) ==
    CASE outcome[1] = "ok" -> NoError
      [] outcome[1] = "get" ->
            <<"failed", "to", "get", "deployment">> \o KeyText[key]
                \o ClientErrText(outcome[2])
      [] outcome[1] = "list" ->
            <<"failed", "to", "list", "pods", "for", "key">> \o KeyText[key]
                \o ClientErrText(outcome[2])
      [] outcome[1] = "deleted" ->
            <<"deployment">> \o KeyText[key] \o <<"is", "being", "deleted">>
      [] outcome[1] = "update" -> ClientErrText(outcome[2])

\* strings.Contains(err.Error(), word)
Contains(err, word) == \E i \in 1..Len(err) : err[i] = word

\* processNextItem after scale returned err: log it, and panic if it names mvcc
AfterScale(w, outcome, okPc) ==
    \E err \in {ScaleError(worker[w].key, outcome)} :
        /\ worker' = [worker EXCEPT
              ![w].pc = IF err = NoError THEN okPc
                        ELSE IF Contains(err, "mvcc") THEN "panic" ELSE "finish",
              ![w].failure = outcome[2]]
        /\ asCrashed' = (err # NoError /\ Contains(err, "mvcc"))

\* a scale that would go on to Reconcile after a failed read
WorkerReadCluster_goesOn(w) ==
    /\ ASAlive /\ worker[w].pc = "scale"
    /\ \E outcome \in {<<"ok", Nil>>} \cup ({"get", "list"} \X {"transient", "corruption"}) :
        /\ worker' = [worker EXCEPT ![w].pc = "reconcile", ![w].failure = outcome[2]]
        /\ UNCHANGED asCrashed
    /\ UNCHANGED <<queue, dirty, processing, shuttingDown, active, asDesired, asCtxDone,
                   runReturned, addsSinceGet, nTickers, tickerExited, asAsync, asStarted>>
    /\ UNCHANGED NotAS

\* scale: client.Get of the deployment and client.List of its pods; either may
\* fail, and then scale returns the error before Reconcile
WorkerReadCluster(w) ==
    /\ ASAlive /\ worker[w].pc = "scale"
    /\ \E outcome \in {<<"ok", Nil>>} \cup ({"get", "list"} \X {"transient", "corruption"}) :
        AfterScale(w, outcome, "reconcile")
    /\ UNCHANGED <<queue, dirty, processing, shuttingDown, active, asDesired, asCtxDone,
                   runReturned, addsSinceGet, nTickers, tickerExited, asAsync, asStarted>>
    /\ UNCHANGED NotAS

\* scale: deciders[key].Reconcile(ctx, now, nReady) stores and returns a desired
\* scale (computed as in KPAReconcile; here any value the decider may return);
\* the worker keeps it in its local desired (-1: no Reconcile in this call)
WorkerReconcile(w) ==
    /\ ASAlive /\ worker[w].pc = "reconcile"
    /\ \E d \in 0..MaxDesired :
        /\ asDesired' = [asDesired EXCEPT ![worker[w].key] = d]
        /\ worker' = [worker EXCEPT ![w].pc = "scaleCall", ![w].desired = d]
    /\ UNCHANGED <<queue, dirty, processing, shuttingDown, active, asCtxDone,
                   runReturned, addsSinceGet, nTickers, tickerExited, asAsync, asStarted,
                   asCrashed>>
    /\ UNCHANGED NotAS

\* scale: scaler.Scale(ctx, key, desired) returns nil, or fails at its Get, at
\* the DeletionTimestamp test or at the Update
WorkerScale(w) ==
    /\ ASAlive /\ worker[w].pc = "scaleCall"
    /\ \E outcome \in {<<"ok", Nil>>, <<"deleted", "teardown">>}
                        \cup ({"get", "update"} \X {"transient", "corruption"}) :
        AfterScale(w, outcome, "finish")
    /\ UNCHANGED <<queue, dirty, processing, shuttingDown, active, asDesired, asCtxDone,
                   runReturned, addsSinceGet, nTickers, tickerExited, asAsync, asStarted>>
    /\ UNCHANGED NotAS

\* a processNextItem that would add the key back after a failed scale
WorkerFinish_requeue(w) ==
    /\ ASAlive /\ worker[w].pc = "finish"
    /\ SetQueue(IF worker[w].failure = Nil THEN QueueDone(TheQueue, worker[w].key)
                ELSE QueueAdd(QueueDone(TheQueue, worker[w].key), worker[w].key))
    /\ worker' = [worker EXCEPT ![w] = [pc |-> "get", key |-> Nil, failure |-> Nil, desired |-> -1]]
    /\ UNCHANGED <<active, asDesired, asCtxDone, runReturned, addsSinceGet, nTickers,
                   tickerExited, asAsync, asStarted, asCrashed>>
    /\ UNCHANGED NotAS

\* a processNextItem that would return without Done
WorkerFinish_noDone(w) ==
    /\ ASAlive /\ worker[w].pc = "finish"
    /\ worker' = [worker EXCEPT ![w] = [pc |-> "get", key |-> Nil, failure |-> Nil, desired |-> -1]]
    /\ UNCHANGED <<queue, dirty, processing, shuttingDown, active, asDesired, asCtxDone,
                   runReturned, addsSinceGet, nTickers, tickerExited, asAsync, asStarted,
                   asCrashed>>
    /\ UNCHANGED NotAS

\* processNextItem returns: the deferred queue.Forget(key) and queue.Done(key)
WorkerFinish(w) ==
    /\ ASAlive /\ worker[w].pc = "finish"
    /\ SetQueue(QueueDone(TheQueue, worker[w].key))
    /\ worker' = [worker EXCEPT ![w] = [pc |-> "get", key |-> Nil, failure |-> Nil, desired |-> -1]]
    /\ UNCHANGED <<active, asDesired, asCtxDone, runReturned, addsSinceGet, nTickers,
                   tickerExited, asAsync, asStarted, asCrashed>>
    /\ UNCHANGED NotAS

\* tickAutoScaler: the ticker fired and the select took it (it may do so even
\* when runCtx is already done)
Tick(key) ==
    /\ ASAlive /\ nTickers[key] > 0 /\ ~tickerExited[key]
    /\ SetQueue(QueueAdd(TheQueue, key))
    /\ CountAdd(key)
    /\ UNCHANGED <<worker, active, asDesired, asCtxDone, runReturned, nTickers,
                   tickerExited, asAsync, asStarted, asCrashed>>
    /\ UNCHANGED NotAS

\* tickAutoScaler: the select took runCtx.Done()
TickerExit(key) ==
    /\ ASAlive /\ nTickers[key] > 0 /\ ~tickerExited[key] /\ asCtxDone
    /\ tickerExited' = [tickerExited EXCEPT ![key] = TRUE]
    /\ UNCHANGED <<queue, dirty, processing, shuttingDown, worker, active, asDesired,
                   asCtxDone, runReturned, addsSinceGet, nTickers, asAsync, asStarted,
                   asCrashed>>
    /\ UNCHANGED NotAS

\* a ReqIn that would wait until no worker holds the key
ASReqIn_waitsForWorker(key) ==
    /\ ASAlive
    /\ key \notin processing
    /\ IF ~asStarted
       THEN /\ asCrashed' = TRUE
            /\ UNCHANGED <<queue, dirty, processing, shuttingDown, worker, active,
                           asDesired, asCtxDone, runReturned, addsSinceGet, nTickers,
                           tickerExited, asAsync, asStarted>>
       ELSE /\ active' = [active EXCEPT ![key] = TRUE]
            /\ nTickers' = IF active[key] THEN nTickers
                           ELSE [nTickers EXCEPT ![key] = @ + 1]
            /\ IF ~asAsync /\ asDesired[key] = 0
               THEN SetQueue(QueueAdd(TheQueue, key)) /\ CountAdd(key)
               ELSE UNCHANGED <<queue, dirty, processing, shuttingDown, addsSinceGet>>
            /\ UNCHANGED <<worker, asDesired, asCtxDone, runReturned, tickerExited,
                           asAsync, asStarted, asCrashed>>
    /\ UNCHANGED NotAS

\* a ReqIn that would leave every Add to the ticker
ASReqIn_noKick(key) ==
    /\ ASAlive
    /\ IF ~asStarted
       THEN /\ asCrashed' = TRUE
            /\ UNCHANGED <<queue, dirty, processing, shuttingDown, worker, active,
                           asDesired, asCtxDone, runReturned, addsSinceGet, nTickers,
                           tickerExited, asAsync, asStarted>>
       ELSE /\ active' = [active EXCEPT ![key] = TRUE]
            /\ nTickers' = IF active[key] THEN nTickers
                           ELSE [nTickers EXCEPT ![key] = @ + 1]
            /\ UNCHANGED <<queue, dirty, processing, shuttingDown, addsSinceGet>>
            /\ UNCHANGED <<worker, asDesired, asCtxDone, runReturned, tickerExited,
                           asAsync, asStarted, asCrashed>>
    /\ UNCHANGED NotAS

\* a ReqIn whose Activate would report true on every call
ASReqIn_noCompareAndSwap(key) ==
    /\ ASAlive
    /\ IF ~asStarted
       THEN /\ asCrashed' = TRUE
            /\ UNCHANGED <<queue, dirty, processing, shuttingDown, worker, active,
                           asDesired, asCtxDone, runReturned, addsSinceGet, nTickers,
                           tickerExited, asAsync, asStarted>>
       ELSE /\ active' = [active EXCEPT ![key] = TRUE]
            /\ nTickers' = [nTickers EXCEPT ![key] = @ + 1]
            /\ IF ~asAsync /\ asDesired[key] = 0
               THEN SetQueue(QueueAdd(TheQueue, key)) /\ CountAdd(key)
               ELSE UNCHANGED <<queue, dirty, processing, shuttingDown, addsSinceGet>>
            /\ UNCHANGED <<worker, asDesired, asCtxDone, runReturned, tickerExited,
                           asAsync, asStarted, asCrashed>>
    /\ UNCHANGED NotAS

\* autoscalerImpl.ReqIn(req) for a request of target key (every key has a
\* decider): panics before Run; else decider.ReqIn, Activate (which starts the
\* ticker once), and in synchronous mode the cold-start Add
ASReqIn(key) ==
    /\ ASAlive
    /\ IF ~asStarted
       THEN /\ asCrashed' = TRUE
            /\ UNCHANGED <<queue, dirty, processing, shuttingDown, worker, active,
                           asDesired, asCtxDone, runReturned, addsSinceGet, nTickers,
                           tickerExited, asAsync, asStarted>>
       ELSE /\ active' = [active EXCEPT ![key] = TRUE]
            /\ nTickers' = IF active[key] THEN nTickers
                           ELSE [nTickers EXCEPT ![key] = @ + 1]
            /\ IF ~asAsync /\ asDesired[key] = 0
               THEN SetQueue(QueueAdd(TheQueue, key)) /\ CountAdd(key)
               ELSE UNCHANGED <<queue, dirty, processing, shuttingDown, addsSinceGet>>
            /\ UNCHANGED <<worker, asDesired, asCtxDone, runReturned, tickerExited,
                           asAsync, asStarted, asCrashed>>
    /\ UNCHANGED NotAS

\* autoscalerImpl.ReqOut(res) for a response of target key: panics before Run;
\* else decider.ReqOut, which touches the collector's counters only
ASReqOut(key) ==
    /\ ASAlive
    /\ asCrashed' = ~asStarted
    /\ UNCHANGED <<queue, dirty, processing, shuttingDown, worker, active, asDesired,
                   asCtxDone, runReturned, addsSinceGet, nTickers, tickerExited, asAsync,
                   asStarted>>
    /\ UNCHANGED NotAS

ASInit ==
    /\ queue = <<>>
    /\ dirty = {}
    /\ processing = {}
    /\ shuttingDown = FALSE
    /\ worker = [w \in Workers |-> [pc |-> "idle", key |-> Nil, failure |-> Nil, desired |-> -1]]
    /\ active = [k \in Keys |-> FALSE]
    /\ asDesired = [k \in Keys |-> 0]
    /\ asCtxDone = FALSE
    /\ runReturned = FALSE
    /\ addsSinceGet = [k \in Keys |-> 0]
    /\ nTickers = [k \in Keys |-> 0]
    /\ tickerExited = [k \in Keys |-> FALSE]
    /\ asAsync \in BOOLEAN
    /\ asStarted = FALSE
    /\ asCrashed = FALSE

ASNext ==
    \/ ASRun
    \/ ASCancel
    \/ ASRunReturn
    \/ \E w \in Workers : WorkerGet(w)
    \/ \E w \in Workers : WorkerExit(w)
    \/ \E w \in Workers : WorkerReadCluster(w)
    \/ \E w \in Workers : WorkerReconcile(w)
    \/ \E w \in Workers : WorkerScale(w)
    \/ \E w \in Workers : WorkerFinish(w)
    \/ \E k \in Keys : Tick(k)
    \/ \E k \in Keys : TickerExit(k)
    \/ \E k \in Keys : ASReqIn(k)
    \/ \E k \in Keys : ASReqOut(k)

(***************************************************************************)
(* gatewayImpl.relay and dispatcher.PodDispatcher, for one registered key  *)
(***************************************************************************)

\* bounds of SpecGW
MaxReqs == 2
MaxReconciles == 3

podServiceConcurrency == 1

Key == "k1"
Targets == {"k1", "k2"}
Pods == {"A", "B"}
ReqIDs == 1..MaxReqs
\* what backend.Executor.Execute may return as Status
ExecStatuses == {"SUCCESS", "FAIL_CONNECT"}

NoDispatch == [pc |-> "none", key |-> Nil, status |-> Nil]
\* no Reconcile call in progress.  Of a call in progress: add and del still to
\* do, pushLeft the tokens an added key has still to push, errs the errors
\* sent to the errs channel; ready (the identities of readyPods), before (the
\* endpoints the call found), failed (the keys whose NewBackend failed) and
\* pushed (the tokens pushed per key) record what the call was given and did
IdleReconcile ==
    [pc |-> "idle", add |-> {}, del |-> {}, pushLeft |-> [e \in Pods |-> 0], errs |-> 0,
     ready |-> {}, before |-> {}, failed |-> {}, pushed |-> [e \in Pods |-> 0]]

GWAlive == ~crashed

\* a client sends on RequestChan(Key): the request may name another target
ClientSend ==
    /\ GWAlive /\ nextReq <= MaxReqs
    /\ \E target \in Targets :
        externalInput' = Append(externalInput, [ID |-> nextReq, Target |-> target])
    /\ nextReq' = nextReq + 1
    /\ UNCHANGED <<internalInput, internalOutput, externalOutput, tokens, endpoints, disp,
                   rec, gwStarted, relayExited, pdExited, runCtx, crashed, ctxDone, nRec,
                   everRemoved, statsVars>>
    /\ UNCHANGED NotGW

\* k8sGateway.Start: go relay, go dispatcher.Run, then go autoscaler.Run
GWStart ==
    /\ GWAlive /\ ~gwStarted
    /\ gwStarted' = TRUE
    /\ UNCHANGED <<externalInput, internalInput, internalOutput, externalOutput, tokens,
                   endpoints, disp, rec, relayExited, pdExited, runCtx, crashed, ctxDone,
                   nextReq, nRec, everRemoved, statsVars>>
    /\ UNCHANGED NotGW

\* autoscalerImpl.Run, in its own goroutine: s.runCtx = ctx
AutoscalerRun ==
    /\ GWAlive /\ gwStarted /\ ~runCtx
    /\ runCtx' = TRUE
    /\ UNCHANGED <<externalInput, internalInput, internalOutput, externalOutput, tokens,
                   endpoints, disp, rec, gwStarted, relayExited, pdExited, crashed, ctxDone,
                   nextReq, nRec, everRemoved, statsVars>>
    /\ UNCHANGED NotGW

\* the root context is cancelled
Cancel ==
    /\ GWAlive /\ ~ctxDone
    /\ ctxDone' = TRUE
    /\ UNCHANGED <<externalInput, internalInput, internalOutput, externalOutput, tokens,
                   endpoints, disp, rec, gwStarted, relayExited, pdExited, runCtx, crashed,
                   nextReq, nRec, everRemoved, statsVars>>
    /\ UNCHANGED NotGW

RelayRunning == GWAlive /\ gwStarted /\ ~relayExited

\* a relay that would lack the `continue` after the INVALID_TARGET response
RelayExternalInput_noContinue ==
    /\ RelayRunning /\ externalInput # <<>>
    /\ LET req == Head(externalInput)
           invalid == IF req.Target # Key
                      THEN <<[Source |-> req, Status |-> "INVALID_TARGET"]>> ELSE <<>>
       IN /\ externalInput' = Tail(externalInput)
          /\ IF ~runCtx
             THEN /\ crashed' = TRUE
                  /\ externalOutput' = externalOutput \o invalid
                  /\ UNCHANGED <<internalInput, statsVars>>
             ELSE /\ externalOutput' = externalOutput \o invalid
                  /\ stats' = StatsReqIn(stats, clock)
                  /\ nReqIn' = nReqIn + 1
                  /\ internalInput' = Append(internalInput, req)
                  /\ UNCHANGED <<collector, collCtxDone, sinceReport, clock, nReqOut, lastOp, crashed>>
    /\ UNCHANGED <<internalOutput, tokens, endpoints, disp, rec, gwStarted, relayExited,
                   pdExited, runCtx, ctxDone, nextReq, nRec, everRemoved>>
    /\ UNCHANGED NotGW

\* a relay that would send the INVALID_TARGET response through the internal
\* output
RelayExternalInput_viaInternal ==
    /\ RelayRunning /\ externalInput # <<>>
    /\ LET req == Head(externalInput)
       IN /\ externalInput' = Tail(externalInput)
          /\ IF req.Target # Key
             THEN /\ internalOutput' =
                        Append(internalOutput, [Source |-> req, Status |-> "INVALID_TARGET"])
                  /\ UNCHANGED <<internalInput, crashed, statsVars>>
             ELSE IF ~runCtx
             THEN /\ crashed' = TRUE
                  /\ UNCHANGED <<internalInput, internalOutput, statsVars>>
             ELSE /\ stats' = StatsReqIn(stats, clock)
                  /\ nReqIn' = nReqIn + 1
                  /\ internalInput' = Append(internalInput, req)
                  /\ UNCHANGED <<collector, collCtxDone, sinceReport, clock, nReqOut, lastOp, internalOutput, crashed>>
    /\ UNCHANGED <<externalOutput, tokens, endpoints, disp, rec, gwStarted, relayExited,
                   pdExited, runCtx, ctxDone, nextReq, nRec, everRemoved>>
    /\ UNCHANGED NotGW

\* a relay that would call onReqIn before it looks at the target
RelayExternalInput_hookFirst ==
    /\ RelayRunning /\ externalInput # <<>>
    /\ LET req == Head(externalInput)
       IN /\ externalInput' = Tail(externalInput)
          /\ IF ~runCtx
             THEN /\ crashed' = TRUE
                  /\ UNCHANGED <<internalInput, externalOutput, statsVars>>
             ELSE /\ stats' = StatsReqIn(stats, clock)
                  /\ nReqIn' = nReqIn + 1
                  /\ UNCHANGED <<collector, collCtxDone, sinceReport, clock, nReqOut, lastOp, crashed>>
                  /\ IF req.Target # Key
                     THEN /\ externalOutput' = Append(externalOutput,
                                   [Source |-> req, Status |-> "INVALID_TARGET"])
                          /\ UNCHANGED internalInput
                     ELSE /\ internalInput' = Append(internalInput, req)
                          /\ UNCHANGED externalOutput
    /\ UNCHANGED <<internalOutput, tokens, endpoints, disp, rec, gwStarted, relayExited,
                   pdExited, runCtx, ctxDone, nextReq, nRec, everRemoved>>
    /\ UNCHANGED NotGW

\* relay, case req := <-externalInput: a mis-addressed request is answered
\* INVALID_TARGET on the external output; any other goes through onReqIn
\* (autoscalerImpl.ReqIn: panic when runCtx is nil, else decider.ReqIn) and on
\* to the internal input
RelayExternalInput ==
    /\ RelayRunning /\ externalInput # <<>>
    /\ LET req == Head(externalInput)
       IN /\ externalInput' = Tail(externalInput)
          /\ IF req.Target # Key
             THEN /\ externalOutput' =
                        Append(externalOutput, [Source |-> req, Status |-> "INVALID_TARGET"])
                  /\ UNCHANGED <<internalInput, crashed, statsVars>>
             ELSE IF ~runCtx
             THEN /\ crashed' = TRUE
                  /\ UNCHANGED <<internalInput, externalOutput, statsVars>>
             ELSE /\ stats' = StatsReqIn(stats, clock)
                  /\ nReqIn' = nReqIn + 1
                  /\ internalInput' = Append(internalInput, req)
                  /\ UNCHANGED <<collector, collCtxDone, sinceReport, clock, nReqOut, lastOp, externalOutput, crashed>>
    /\ UNCHANGED <<internalOutput, tokens, endpoints, disp, rec, gwStarted, relayExited,
                   pdExited, runCtx, ctxDone, nextReq, nRec, everRemoved>>
    /\ UNCHANGED NotGW

\* relay, case res := <-internalOutput: onReqOut (autoscalerImpl.ReqOut: panic
\* when runCtx is nil, else decider.ReqOut), then the external output
RelayInternalOutput ==
    /\ RelayRunning /\ internalOutput # <<>>
    /\ internalOutput' = Tail(internalOutput)
    /\ IF ~runCtx
       THEN /\ crashed' = TRUE
            /\ UNCHANGED <<externalOutput, statsVars>>
       ELSE /\ stats' = StatsReqOut(stats, clock)
            /\ nReqOut' = nReqOut + 1
            /\ externalOutput' = Append(externalOutput, Head(internalOutput))
            /\ UNCHANGED <<collector, collCtxDone, sinceReport, clock, nReqIn, lastOp, crashed>>
    /\ UNCHANGED <<externalInput, internalInput, tokens, endpoints, disp, rec, gwStarted,
                   relayExited, pdExited, runCtx, ctxDone, nextReq, nRec, everRemoved>>
    /\ UNCHANGED NotGW

\* relay, case <-ctx.Done()
RelayExit ==
    /\ RelayRunning /\ ctxDone
    /\ relayExited' = TRUE
    /\ UNCHANGED <<externalInput, internalInput, internalOutput, externalOutput, tokens,
                   endpoints, disp, rec, gwStarted, pdExited, runCtx, crashed, ctxDone,
                   nextReq, nRec, everRemoved, statsVars>>
    /\ UNCHANGED NotGW

PDRunning == GWAlive /\ gwStarted /\ ~pdExited

\* PodDispatcher.Run, case req := <-pd.reqChan: go pd.Dispatch(ctx, logger, req)
PDRunDispatch ==
    /\ PDRunning /\ internalInput # <<>>
    /\ internalInput' = Tail(internalInput)
    /\ disp' = [disp EXCEPT ![Head(internalInput).ID] =
                    [pc |-> "dispatch", key |-> Nil, status |-> Nil]]
    /\ UNCHANGED <<externalInput, internalOutput, externalOutput, tokens, endpoints, rec,
                   gwStarted, relayExited, pdExited, runCtx, crashed, ctxDone, nextReq,
                   nRec, everRemoved, statsVars>>
    /\ UNCHANGED NotGW

\* PodDispatcher.Run, case <-ctx.Done()
PDRunExit ==
    /\ PDRunning /\ ctxDone
    /\ pdExited' = TRUE
    /\ UNCHANGED <<externalInput, internalInput, internalOutput, externalOutput, tokens,
                   endpoints, disp, rec, gwStarted, relayExited, runCtx, crashed, ctxDone,
                   nextReq, nRec, everRemoved, statsVars>>
    /\ UNCHANGED NotGW

GWRest == <<externalInput, internalInput, externalOutput, gwStarted, relayExited,
            pdExited, runCtx, crashed, ctxDone, nextReq, statsVars>>

\* dispatch, case key := <-pd.tokens.Out()
DispatchPop(r) ==
    /\ GWAlive /\ disp[r].pc = "dispatch" /\ tokens # <<>>
    /\ tokens' = Tail(tokens)
    /\ disp' = [disp EXCEPT ![r] = [pc |-> "lookup", key |-> Head(tokens), status |-> Nil]]
    /\ UNCHANGED <<GWRest, internalOutput, endpoints, rec, nRec, everRemoved>>
    /\ UNCHANGED NotGW

\* a dispatch that would use the token of a removed pod
DispatchLookup_useRemoved(r) ==
    /\ GWAlive /\ disp[r].pc = "lookup"
    /\ disp' = [disp EXCEPT ![r] = [pc |-> "execute", key |-> disp[r].key, status |-> Nil]]
    /\ UNCHANGED <<GWRest, internalOutput, tokens, endpoints, rec, nRec, everRemoved>>
    /\ UNCHANGED NotGW

\* dispatch: executor, ok := pd.endpoints.Get(key); a token of a removed pod
\* is dropped and the loop goes on
DispatchLookup(r) ==
    /\ GWAlive /\ disp[r].pc = "lookup"
    /\ disp' = [disp EXCEPT ![r] =
                    IF disp[r].key \in endpoints
                    THEN [pc |-> "execute", key |-> disp[r].key, status |-> Nil]
                    ELSE [pc |-> "dispatch", key |-> Nil, status |-> Nil]]
    /\ UNCHANGED <<GWRest, internalOutput, tokens, endpoints, rec, nRec, everRemoved>>
    /\ UNCHANGED NotGW

\* dispatch, case <-dispatchCtx.Done(): the dispatch timeout expired or the
\* root context was cancelled
DispatchTimeout(r) ==
    /\ GWAlive /\ disp[r].pc = "dispatch"
    /\ disp' = [disp EXCEPT ![r] = [pc |-> "timeout", key |-> Nil, status |-> Nil]]
    /\ UNCHANGED <<GWRest, internalOutput, tokens, endpoints, rec, nRec, everRemoved>>
    /\ UNCHANGED NotGW

\* a Dispatch that would return on timeout without a response
DispatchSendTimeout_silent(r) ==
    /\ GWAlive /\ disp[r].pc = "timeout"
    /\ disp' = [disp EXCEPT ![r] = [pc |-> "done", key |-> Nil, status |-> Nil]]
    /\ UNCHANGED <<GWRest, internalOutput, tokens, endpoints, rec, nRec, everRemoved>>
    /\ UNCHANGED NotGW

\* Dispatch, executor == nil: the FAIL_TIMEOUT response
DispatchSendTimeout(r) ==
    /\ GWAlive /\ disp[r].pc = "timeout"
    /\ internalOutput' = Append(internalOutput,
            [Source |-> [ID |-> r, Target |-> Key], Status |-> "FAIL_TIMEOUT"])
    /\ disp' = [disp EXCEPT ![r] = [pc |-> "done", key |-> Nil, status |-> Nil]]
    /\ UNCHANGED <<GWRest, tokens, endpoints, rec, nRec, everRemoved>>
    /\ UNCHANGED NotGW

\* Dispatch: res := executor.Execute(ctx, req) returns
DispatchExecute(r) ==
    /\ GWAlive /\ disp[r].pc = "execute"
    /\ \E st \in ExecStatuses :
        disp' = [disp EXCEPT ![r] = [pc |-> "pushToken", key |-> disp[r].key, status |-> st]]
    /\ UNCHANGED <<GWRest, internalOutput, tokens, endpoints, rec, nRec, everRemoved>>
    /\ UNCHANGED NotGW

\* a Dispatch that would not give the token back
DispatchPushToken_dropToken(r) ==
    /\ GWAlive /\ disp[r].pc = "pushToken"
    /\ disp' = [disp EXCEPT ![r] = [pc |-> "sendRes", key |-> Nil, status |-> disp[r].status]]
    /\ UNCHANGED <<GWRest, internalOutput, tokens, endpoints, rec, nRec, everRemoved>>
    /\ UNCHANGED NotGW

\* Dispatch: pd.tokens.In() <- key
DispatchPushToken(r) ==
    /\ GWAlive /\ disp[r].pc = "pushToken"
    /\ tokens' = Append(tokens, disp[r].key)
    /\ disp' = [disp EXCEPT ![r] = [pc |-> "sendRes", key |-> Nil, status |-> disp[r].status]]
    /\ UNCHANGED <<GWRest, internalOutput, endpoints, rec, nRec, everRemoved>>
    /\ UNCHANGED NotGW

\* Dispatch: pd.resChan <- res
DispatchSendRes(r) ==
    /\ GWAlive /\ disp[r].pc = "sendRes"
    /\ internalOutput' = Append(internalOutput,
            [Source |-> [ID |-> r, Target |-> Key], Status |-> disp[r].status])
    /\ disp' = [disp EXCEPT ![r] = [pc |-> "done", key |-> Nil, status |-> Nil]]
    /\ UNCHANGED <<GWRest, tokens, endpoints, rec, nRec, everRemoved>>
    /\ UNCHANGED NotGW

GWRestRec == <<externalInput, internalInput, internalOutput, externalOutput, disp,
               gwStarted, relayExited, pdExited, runCtx, crashed, ctxDone, nextReq,
               statsVars>>

\* PodDispatcher.Reconcile(ctx, readyPods) is entered (one call at a time per
\* key): add and del are computed against the endpoints map
ReconcileStart(ready) ==
    /\ GWAlive /\ rec.pc = "idle" /\ nRec < MaxReconciles
    /\ rec' = [pc |-> "run", add |-> ready \ endpoints, del |-> endpoints \ ready,
               pushLeft |-> [e \in Pods |-> 0], errs |-> 0,
               ready |-> ready, before |-> endpoints, failed |-> {},
               pushed |-> [e \in Pods |-> 0]]
    /\ nRec' = nRec + 1
    /\ UNCHANGED <<GWRestRec, tokens, endpoints, everRemoved>>
    /\ UNCHANGED NotGW

\* Reconcile, goroutine of an added key: backend.NewBackend(ep) fails, or
\* succeeds and pd.endpoints.Set(key, executor) follows
ReconcileAdd(key) ==
    /\ GWAlive /\ rec.pc = "run" /\ key \in rec.add
    /\ \E ok \in BOOLEAN :
        IF ok
        THEN /\ endpoints' = endpoints \cup {key}
             /\ rec' = [rec EXCEPT !.add = @ \ {key},
                                   !.pushLeft[key] = podServiceConcurrency]
        ELSE /\ rec' = [rec EXCEPT !.add = @ \ {key}, !.errs = @ + 1,
                                   !.failed = @ \cup {key}]
             /\ UNCHANGED endpoints
    /\ UNCHANGED <<GWRestRec, tokens, nRec, everRemoved>>
    /\ UNCHANGED NotGW

\* Reconcile, goroutine of an added key: pd.tokens.In() <- key
ReconcilePushToken(key) ==
    /\ GWAlive /\ rec.pc = "run" /\ rec.pushLeft[key] > 0
    /\ tokens' = Append(tokens, key)
    /\ rec' = [rec EXCEPT !.pushLeft[key] = @ - 1, !.pushed[key] = @ + 1]
    /\ UNCHANGED <<GWRestRec, endpoints, nRec, everRemoved>>
    /\ UNCHANGED NotGW

\* a Reconcile that would leave a stale endpoint in the map
ReconcileDel_notRemoved(key) ==
    /\ GWAlive /\ rec.pc = "run" /\ key \in rec.del
    /\ rec' = [rec EXCEPT !.del = @ \ {key}]
    /\ UNCHANGED <<GWRestRec, tokens, endpoints, everRemoved, nRec>>
    /\ UNCHANGED NotGW

\* Reconcile: pd.endpoints.Del(key) and go executor.Close()
ReconcileDel(key) ==
    /\ GWAlive /\ rec.pc = "run" /\ key \in rec.del
    /\ endpoints' = endpoints \ {key}
    /\ everRemoved' = everRemoved \cup {key}
    /\ rec' = [rec EXCEPT !.del = @ \ {key}]
    /\ UNCHANGED <<GWRestRec, tokens, nRec>>
    /\ UNCHANGED NotGW

\* Reconcile: the del loop is over, wg.Wait() returned, the errors are returned
ReconcileReturn ==
    /\ GWAlive /\ rec.pc = "run" /\ rec.add = {} /\ rec.del = {}
    /\ \A e \in Pods : rec.pushLeft[e] = 0
    /\ rec' = IdleReconcile
    /\ UNCHANGED <<GWRestRec, tokens, endpoints, nRec, everRemoved>>
    /\ UNCHANGED NotGW

GWInit ==
    /\ externalInput = <<>>
    /\ internalInput = <<>>
    /\ internalOutput = <<>>
    /\ externalOutput = <<>>
    /\ tokens = <<>>
    /\ endpoints = {}
    /\ disp = [r \in ReqIDs |-> NoDispatch]
    /\ rec = IdleReconcile
    /\ gwStarted = FALSE
    /\ relayExited = FALSE
    /\ pdExited = FALSE
    /\ runCtx = FALSE
    /\ crashed = FALSE
    /\ ctxDone = FALSE
    /\ nextReq = 1
    /\ nRec = 0
    /\ everRemoved = {}

GWNext ==
    \/ ClientSend
    \/ GWStart
    \/ AutoscalerRun
    \/ Cancel
    \/ RelayExternalInput
    \/ RelayInternalOutput
    \/ RelayExit
    \/ PDRunDispatch
    \/ PDRunExit
    \/ \E r \in ReqIDs : DispatchPop(r)
    \/ \E r \in ReqIDs : DispatchLookup(r)
    \/ \E r \in ReqIDs : DispatchTimeout(r)
    \/ \E r \in ReqIDs : DispatchSendTimeout(r)
    \/ \E r \in ReqIDs : DispatchExecute(r)
    \/ \E r \in ReqIDs : DispatchPushToken(r)
    \/ \E r \in ReqIDs : DispatchSendRes(r)
    \/ \E ready \in SUBSET Pods : ReconcileStart(ready)
    \/ \E e \in Pods : ReconcileAdd(e)
    \/ \E e \in Pods : ReconcilePushToken(e)
    \/ \E e \in Pods : ReconcileDel(e)
    \/ ReconcileReturn

(***************************************************************************)
(* gatewayImpl.relay, one goroutine per key, statement by statement        *)
(* (SpecRelay).  onReqIn and onReqOut are the two functions handed to      *)
(* newGatewayImpl; the ones used here record their entry and their return. *)
(***************************************************************************)
MaxRelayReqs == 3

RelayKeys == {"k1", "k2"}

RelayReqIDs == 1..MaxRelayReqs

NoRequest == [ID |-> 0, Target |-> Nil]

\* one record written by a hook function
HookEvent(hook, ev, req) ==
    [hook |-> hook, ev |-> ev, id |-> req.ID, target |-> req.Target]

\* a client sends a request for `target` on the channel RequestChan(ch)
RelaySend(ch, target) ==
    /\ rNextReq <= MaxRelayReqs
    /\ rExternalInputs' = [rExternalInputs EXCEPT
            ![ch] = Append(@, [ID |-> rNextReq, Target |-> target])]
    /\ rNextReq' = rNextReq + 1
    /\ UNCHANGED <<rInternalInputs, rInternalOutputs, rExternalOutput, relayPc,
                   relayReq, hookLog, rCtxDone>>
    /\ UNCHANGED NotRelay

\* relay(key), case req := <-externalInput, up to the call of onReqIn
RelayRecvRequest(key) ==
    /\ relayPc[key] = "select"
    /\ rExternalInputs[key] # <<>>
    /\ LET req == Head(rExternalInputs[key])
       IN /\ rExternalInputs' = [rExternalInputs EXCEPT ![key] = Tail(@)]
          /\ IF req.Target # key
             THEN /\ rExternalOutput' = Append(rExternalOutput,
                           [Source |-> req, Status |-> "INVALID_TARGET"])
                  /\ UNCHANGED <<relayPc, relayReq>>
             ELSE /\ relayReq' = [relayReq EXCEPT ![key] = req]
                  /\ relayPc' = [relayPc EXCEPT ![key] = "onReqIn"]
                  /\ UNCHANGED rExternalOutput
    /\ UNCHANGED <<rInternalInputs, rInternalOutputs, hookLog, rNextReq, rCtxDone>>
    /\ UNCHANGED NotRelay

\* g.onReqIn(req) is entered
OnReqInEnter(key) ==
    /\ relayPc[key] = "onReqIn"
    /\ hookLog' = Append(hookLog, HookEvent("ReqIn", "enter", relayReq[key]))
    /\ relayPc' = [relayPc EXCEPT ![key] = "inReqIn"]
    /\ UNCHANGED <<rExternalInputs, rInternalInputs, rInternalOutputs,
                   rExternalOutput, relayReq, rNextReq, rCtxDone>>
    /\ UNCHANGED NotRelay

\* g.onReqIn(req) returns
OnReqInReturn(key) ==
    /\ relayPc[key] = "inReqIn"
    /\ hookLog' = Append(hookLog, HookEvent("ReqIn", "return", relayReq[key]))
    /\ relayPc' = [relayPc EXCEPT ![key] = "forward"]
    /\ UNCHANGED <<rExternalInputs, rInternalInputs, rInternalOutputs,
                   rExternalOutput, relayReq, rNextReq, rCtxDone>>
    /\ UNCHANGED NotRelay

\* a relay that would send the request on while onReqIn is still running
RelayForward_beforeReturn(key) ==
    /\ relayPc[key] \in {"inReqIn", "forward"}
    /\ rInternalInputs' = [rInternalInputs EXCEPT ![key] = Append(@, relayReq[key])]
    /\ relayReq' = [relayReq EXCEPT ![key] = NoRequest]
    /\ relayPc' = [relayPc EXCEPT ![key] = "select"]
    /\ UNCHANGED <<rExternalInputs, rInternalOutputs, rExternalOutput, hookLog,
                   rNextReq, rCtxDone>>
    /\ UNCHANGED NotRelay

\* internalInput <- req, and back to the select
RelayForward(key) ==
    /\ relayPc[key] = "forward"
    /\ rInternalInputs' = [rInternalInputs EXCEPT ![key] = Append(@, relayReq[key])]
    /\ relayReq' = [relayReq EXCEPT ![key] = NoRequest]
    /\ relayPc' = [relayPc EXCEPT ![key] = "select"]
    /\ UNCHANGED <<rExternalInputs, rInternalOutputs, rExternalOutput, hookLog,
                   rNextReq, rCtxDone>>
    /\ UNCHANGED NotRelay

\* the dispatcher of `key` takes a request from the internal input and, when
\* its Dispatch is over, sends the response on the internal output
RelayDispatcherAnswers(key) ==
    /\ rInternalInputs[key] # <<>>
    /\ rInternalInputs' = [rInternalInputs EXCEPT ![key] = Tail(@)]
    /\ rInternalOutputs' = [rInternalOutputs EXCEPT ![key] =
            Append(@, [Source |-> Head(rInternalInputs[key]), Status |-> "SUCCESS"])]
    /\ UNCHANGED <<rExternalInputs, rExternalOutput, relayPc, relayReq, hookLog,
                   rNextReq, rCtxDone>>
    /\ UNCHANGED NotRelay

\* relay(key), case res := <-internalOutput: onReqOut runs, then the response
\* goes to the external output
RelayRecvResponse(key) ==
    /\ relayPc[key] = "select"
    /\ rInternalOutputs[key] # <<>>
    /\ LET res == Head(rInternalOutputs[key])
       IN /\ rInternalOutputs' = [rInternalOutputs EXCEPT ![key] = Tail(@)]
          /\ hookLog' = hookLog \o <<HookEvent("ReqOut", "enter", res.Source),
                                     HookEvent("ReqOut", "return", res.Source)>>
          /\ rExternalOutput' = Append(rExternalOutput, res)
    /\ UNCHANGED <<rExternalInputs, rInternalInputs, relayPc, relayReq, rNextReq,
                   rCtxDone>>
    /\ UNCHANGED NotRelay

\* the root context is cancelled
RelayCancel ==
    /\ ~rCtxDone
    /\ rCtxDone' = TRUE
    /\ UNCHANGED <<rExternalInputs, rInternalInputs, rInternalOutputs,
                   rExternalOutput, relayPc, relayReq, hookLog, rNextReq>>
    /\ UNCHANGED NotRelay

\* relay(key), case <-ctx.Done(): return
RelayCtxDone(key) ==
    /\ relayPc[key] = "select"
    /\ rCtxDone
    /\ relayPc' = [relayPc EXCEPT ![key] = "exited"]
    /\ UNCHANGED <<rExternalInputs, rInternalInputs, rInternalOutputs,
                   rExternalOutput, relayReq, hookLog, rNextReq, rCtxDone>>
    /\ UNCHANGED NotRelay

RelayInit ==
    /\ rExternalInputs = [k \in RelayKeys |-> <<>>]
    /\ rInternalInputs = [k \in RelayKeys |-> <<>>]
    /\ rInternalOutputs = [k \in RelayKeys |-> <<>>]
    /\ rExternalOutput = <<>>
    /\ relayPc = [k \in RelayKeys |-> "select"]
    /\ relayReq = [k \in RelayKeys |-> NoRequest]
    /\ hookLog = <<>>
    /\ rNextReq = 1
    /\ rCtxDone = FALSE

RelayNext ==
    \/ \E ch \in RelayKeys, target \in RelayKeys : RelaySend(ch, target)
    \/ \E key \in RelayKeys : RelayRecvRequest(key)
    \/ \E key \in RelayKeys : OnReqInEnter(key)
    \/ \E key \in RelayKeys : OnReqInReturn(key)
    \/ \E key \in RelayKeys : RelayForward(key)
    \/ \E key \in RelayKeys : RelayDispatcherAnswers(key)
    \/ \E key \in RelayKeys : RelayRecvResponse(key)
    \/ RelayCancel
    \/ \E key \in RelayKeys : RelayCtxDone(key)

(***************************************************************************)
(* backend.grpcBackend: the connection pool of one executor                *)
(***************************************************************************)

\* grpc.go: const grpcExecutorConcurrency
grpcExecutorConcurrency == 50
\* how many Execute calls may run on the executor at once
MaxExecs == 51

\* newGrpcBackend: an empty unbounded pool, then newClient, which dials one
\* connection and puts it into the pool grpcExecutorConcurrency times
GrpcInit ==
    /\ connectionPool = grpcExecutorConcurrency
    /\ checkedOut = 0
    /\ creating = 0
    /\ closing = "none"

\* Execute -> getOrCreateClient, case conn := <-g.connectionPool.Out()
GetClient ==
    /\ checkedOut + creating < MaxExecs
    /\ connectionPool > 0
    /\ connectionPool' = connectionPool - 1
    /\ checkedOut' = checkedOut + 1
    /\ UNCHANGED <<creating, closing>>
    /\ UNCHANGED NotGrpc

\* Execute -> getOrCreateClient, default: the pool is empty, newClient dials
\* another connection and puts it into the pool grpcExecutorConcurrency times
\* (when the dial fails Execute returns FAIL_CONNECT and the pool is as before)
CreateClient ==
    /\ checkedOut + creating < MaxExecs
    /\ connectionPool = 0
    /\ connectionPool' = grpcExecutorConcurrency
    /\ creating' = creating + 1
    /\ UNCHANGED <<checkedOut, closing>>
    /\ UNCHANGED NotGrpc

\* getOrCreateClient, default: conn := <-g.connectionPool.Out() after newClient
GetCreatedClient ==
    /\ creating > 0
    /\ connectionPool > 0
    /\ connectionPool' = connectionPool - 1
    /\ creating' = creating - 1
    /\ checkedOut' = checkedOut + 1
    /\ UNCHANGED closing
    /\ UNCHANGED NotGrpc

\* Execute returns: the deferred g.connectionPool.In() <- conn
ExecuteReturn ==
    /\ checkedOut > 0
    /\ checkedOut' = checkedOut - 1
    /\ connectionPool' = connectionPool + 1
    /\ UNCHANGED <<creating, closing>>
    /\ UNCHANGED NotGrpc

\* PodDispatcher.Reconcile, del loop: go executor.Close()
GoClose ==
    /\ closing = "none"
    /\ closing' = "range"
    /\ UNCHANGED <<connectionPool, checkedOut, creating>>
    /\ UNCHANGED NotGrpc

\* Close: for conn := range g.connectionPool.Out() { conn.Close() }. The loop
\* takes an entry when there is one; it ends when the channel is closed, which
\* only the statement after the loop, g.connectionPool.Close(), does.
CloseRange ==
    /\ closing = "range"
    /\ IF connectionPool > 0
       THEN /\ connectionPool' = connectionPool - 1
            /\ UNCHANGED closing
       ELSE /\ closing = "returned"
            /\ closing' = "returned"
            /\ UNCHANGED connectionPool
    /\ UNCHANGED <<checkedOut, creating>>
    /\ UNCHANGED NotGrpc

GrpcNext ==
    \/ GetClient
    \/ CreateClient
    \/ GetCreatedClient
    \/ ExecuteReturn
    \/ GoClose
    \/ CloseRange

(***************************************************************************)
(* The specifications                                                      *)
(***************************************************************************)

\* a component that a specification does not run stays as constructed
KPAIdle ==
    /\ kpaCfg = Nil
    /\ panicTime = 0
    /\ maxPanicPods = 0
    /\ desiredScale = 0
    /\ delayWindow = NoDelayWindow
    /\ kpaNow = 0
    /\ kpaLast = NoReconcile

ASIdle == ASInit /\ ~asAsync

AllInit(kpa, as) == StatsInit /\ kpa /\ as /\ GWInit /\ RelayInit /\ GrpcInit

SpecStats == AllInit(KPAIdle, ASIdle) /\ [][StatsNext]_vars

SpecKPA == AllInit(KPAInit, ASIdle) /\ [][KPANext]_vars

SpecAS == AllInit(KPAIdle, ASInit) /\ [][ASNext]_vars

SpecGW == AllInit(KPAIdle, ASIdle) /\ [][GWNext]_vars

SpecRelay == AllInit(KPAIdle, ASIdle) /\ [][RelayNext]_vars

\* The cold start of target k1, in either mode: every Reconcile finds the
\* request in flight and no ready pod, so it returns 1 or more (the from-zero
\* lower bound of KPAReconcile); the reads of the cluster succeed and the
\* context stays open.
ColdNext ==
    \/ ASRun
    \/ ASReqIn("k1")
    \/ Tick("k1")
    \/ \E w \in Workers : WorkerGet(w)
    \/ \E w \in Workers : WorkerReadCluster(w) /\ worker'[w].pc = "reconcile"
    \/ \E w \in Workers : WorkerReconcile(w) /\ worker'[w].desired >= 1
    \/ \E w \in Workers : WorkerScale(w)
    \/ \E w \in Workers : WorkerFinish(w)

\* k8sGateway.Start has launched Run, and every worker goroutine of Run goes on
\* with its loop
FairSpecCold ==
    /\ AllInit(KPAIdle, ASInit)
    /\ [][ColdNext]_vars
    /\ WF_vars(ASRun)
    /\ \A w \in Workers :
          /\ WF_vars(WorkerGet(w))
          /\ WF_vars(WorkerReadCluster(w) /\ worker'[w].pc = "reconcile")
          /\ WF_vars(WorkerReconcile(w) /\ worker'[w].desired >= 1)
          /\ WF_vars(WorkerScale(w))
          /\ WF_vars(WorkerFinish(w))

\* the ticker of an activated target fires every tickInterval and a worker
\* reconciles the key
FairSpecQuiet ==
    /\ AllInit(KPAInit, ASIdle)
    /\ [][QuietNext]_vars
    /\ WF_vars(QuietTick)

\* the executor's callers and the goroutine of Close are scheduled: a call
\* that can take its connection takes it, a running call returns, and Close
\* takes the next step of its loop
FairSpecGrpc ==
    /\ AllInit(KPAIdle, ASIdle)
    /\ [][GrpcNext]_vars
    /\ WF_vars(GetCreatedClient)
    /\ WF_vars(ExecuteReturn)
    /\ WF_vars(CloseRange)

\* what the Go scheduler and the timers guarantee: a started goroutine that can
\* take a step takes it, and a waiting dispatch gets a token or its timeout.
\* Nothing obliges a client to send, the context to be cancelled or the
\* controller to reconcile.
GWFairness ==
    /\ WF_vars(GWStart)
    /\ WF_vars(AutoscalerRun)
    /\ WF_vars(RelayExternalInput)
    /\ WF_vars(RelayInternalOutput)
    /\ WF_vars(PDRunDispatch)
    /\ \A r \in ReqIDs :
        /\ WF_vars(DispatchPop(r) \/ DispatchTimeout(r))
        /\ WF_vars(DispatchLookup(r))
        /\ WF_vars(DispatchSendTimeout(r))
        /\ WF_vars(DispatchExecute(r))
        /\ WF_vars(DispatchPushToken(r))
        /\ WF_vars(DispatchSendRes(r))
    /\ \A e \in Pods :
        /\ WF_vars(ReconcileAdd(e))
        /\ WF_vars(ReconcilePushToken(e))
        /\ WF_vars(ReconcileDel(e))
    /\ WF_vars(ReconcileReturn)

FairSpecGW == SpecGW /\ GWFairness

\* Shutdown.  The autoscaler side (Run, workers, tickers), the gateway side
\* (relay, dispatcher) and the collector with its RequestStats share nothing
\* but the root context, so SpecDown runs one side per behaviour: a side moves
\* only while the others are as constructed.  The gateway side sees DownReqs
\* requests and DownReconciles Reconcile calls, the autoscaler side requests
\* for one key, the collector DownReqs requests within DownClock seconds.
DownReqs == 1

DownReconciles == 2

DownClock == 2

\* no method of the RequestStats was called from outside the relay and its
\* collector was not started
StatsUntouched ==
    collector = "dormant" /\ ~collCtxDone /\ clock = 1 /\ lastOp = NoOp

\* a step A of one side, taken while the other sides are as constructed
GWSide(A) == ASInit /\ StatsUntouched /\ A

ASSide(A) == GWInit /\ StatsInit /\ A

StatsSide(A) == GWInit /\ ASInit /\ A

GWDownNext ==
    \/ GWSide(ClientSend /\ nextReq <= DownReqs)
    \/ GWSide(GWStart)
    \/ GWSide(AutoscalerRun)
    \/ GWSide(Cancel)
    \/ GWSide(RelayExternalInput)
    \/ GWSide(RelayInternalOutput)
    \/ GWSide(RelayExit)
    \/ GWSide(PDRunDispatch)
    \/ GWSide(PDRunExit)
    \/ \E r \in ReqIDs : GWSide(DispatchPop(r))
    \/ \E r \in ReqIDs : GWSide(DispatchLookup(r))
    \/ \E r \in ReqIDs : GWSide(DispatchTimeout(r))
    \/ \E r \in ReqIDs : GWSide(DispatchSendTimeout(r))
    \/ \E r \in ReqIDs : GWSide(DispatchExecute(r))
    \/ \E r \in ReqIDs : GWSide(DispatchPushToken(r))
    \/ \E r \in ReqIDs : GWSide(DispatchSendRes(r))
    \/ \E ready \in SUBSET Pods : GWSide(ReconcileStart(ready) /\ nRec < DownReconciles)
    \/ \E e \in Pods : GWSide(ReconcileAdd(e))
    \/ \E e \in Pods : GWSide(ReconcilePushToken(e))
    \/ \E e \in Pods : GWSide(ReconcileDel(e))
    \/ GWSide(ReconcileReturn)

ASDownNext ==
    \/ ASSide(ASRun)
    \/ ASSide(ASCancel)
    \/ ASSide(ASRunReturn)
    \/ \E w \in Workers : ASSide(WorkerGet(w))
    \/ \E w \in Workers : ASSide(WorkerExit(w))
    \/ \E w \in Workers : ASSide(WorkerReadCluster(w))
    \/ \E w \in Workers : ASSide(WorkerReconcile(w))
    \/ \E w \in Workers : ASSide(WorkerScale(w))
    \/ \E w \in Workers : ASSide(WorkerFinish(w))
    \/ \E k \in Keys : ASSide(Tick(k))
    \/ \E k \in Keys : ASSide(TickerExit(k))
    \/ ASSide(ASReqIn("k1"))
    \/ ASSide(ASReqOut("k1"))

StatsDownNext ==
    \/ StatsSide(StatsTick /\ clock < DownClock)
    \/ StatsSide(DoReqIn /\ nReqIn < DownReqs)
    \/ StatsSide(DoReqOut /\ nReqOut < DownReqs)
    \/ StatsSide(CollectorActivate)
    \/ StatsSide(Collect)
    \/ StatsSide(CollectorCancel)
    \/ StatsSide(CollectorExit)

DownNext == GWDownNext \/ ASDownNext \/ StatsDownNext

SpecDown == AllInit(KPAIdle, ASInit) /\ [][DownNext]_vars

\* what the Go scheduler guarantees for shutdown: a started goroutine that can
\* take a step takes it, and a select whose ctx.Done() case stays ready takes
\* that case in the end (select chooses among its ready cases at random)
DownFairness ==
    /\ WF_vars(GWSide(GWStart))
    /\ WF_vars(GWSide(RelayExit))
    /\ WF_vars(GWSide(PDRunExit))
    /\ WF_vars(StatsSide(CollectorExit))
    /\ WF_vars(ASSide(ASRun))
    /\ WF_vars(ASSide(ASRunReturn))
    /\ \A w \in Workers :
        /\ WF_vars(ASSide(WorkerGet(w) \/ WorkerExit(w)))
        /\ WF_vars(ASSide(WorkerReadCluster(w)))
        /\ WF_vars(ASSide(WorkerReconcile(w)))
        /\ WF_vars(ASSide(WorkerScale(w)))
        /\ WF_vars(ASSide(WorkerFinish(w)))
    /\ \A k \in Keys : WF_vars(ASSide(TickerExit(k)))

FairSpecDown == SpecDown /\ DownFairness

(***************************************************************************)
(* Properties of metric.RequestStats (SpecStats)                           *)
(***************************************************************************)

\* C7: after any sequence of ReqIn, ReqOut, Report and InstantConcurrency
\* calls, concurrency equals the number of completed ReqIn calls minus the
\* number of completed ReqOut calls, and a Report or an InstantConcurrency
\* leaves concurrency as it found it.
ConcurrencyConservation ==
    /\ stats.concurrency = nReqIn - nReqOut
    /\ lastOp.op \in {"Report", "InstantConcurrency"}
          => stats.concurrency = lastOp.before.concurrency

\* C7 witness: a Report has just run with requests in flight
ConcurrencyConservationWitness ==
    /\ lastOp.op = "Report"
    /\ nReqIn = 2
    /\ nReqOut = 1
    /\ lastOp.before.requestCount = 2

(***************************************************************************)
(* Properties of decider.KPADecider.Reconcile (SpecKPA)                    *)
(***************************************************************************)

\* floor(currentReady / maxScaleDownRate) and ceil(maxScaleUpRate * currentReady)
RateFloor(cfg, ready) ==
    FloorDiv(ready * cfg.maxScaleDownRate[2], cfg.maxScaleDownRate[1])
RateCeil(cfg, ready) ==
    CeilDiv(cfg.maxScaleUpRate[1] * ready, cfg.maxScaleUpRate[2])

\* C5 as claimed: every Reconcile with currentReady > 0 returns a desired
\* between floor(currentReady/maxScaleDownRate) and
\* ceil(maxScaleUpRate*currentReady), in either mode, with or without a delay
\* window.
RateBoundsInEveryMode ==
    (kpaLast.called /\ kpaLast.currentReady > 0) =>
        /\ RateFloor(kpaCfg, kpaLast.currentReady) <= desiredScale
        /\ desiredScale <= RateCeil(kpaCfg, kpaLast.currentReady)

\* C5 as amended: every Reconcile with currentReady > 0 returns a desired of
\* at least floor(currentReady/maxScaleDownRate); the desired is at most
\* ceil(maxScaleUpRate*currentReady) when the call ends in stable mode and the
\* decider has no delay window.
RateBounds ==
    (kpaLast.called /\ kpaLast.currentReady > 0) =>
        /\ RateFloor(kpaCfg, kpaLast.currentReady) <= desiredScale
        /\ (panicTime = 0 /\ ~HasDelayWindow(delayWindow))
              => desiredScale <= RateCeil(kpaCfg, kpaLast.currentReady)

\* C5 witness: a stable-mode Reconcile without delay window whose raw stable
\* desire was cut down to the upper bound
RateBoundsWitness ==
    /\ kpaLast.called
    /\ kpaLast.currentReady = 1
    /\ panicTime = 0
    /\ ~HasDelayWindow(delayWindow)
    /\ kpaLast.dspc > RateCeil(kpaCfg, 1)
    /\ desiredScale = RateCeil(kpaCfg, 1)

InScale(w) == worker[w].pc \in {"scale", "reconcile", "scaleCall"}

\* worker w has taken a key from the queue and has not yet marked it done
Busy(w) == worker[w].pc \in {"scale", "reconcile", "scaleCall", "finish", "panic"}

BeingProcessed(key) == \E w \in Workers : Busy(w) /\ worker[w].key = key

\* C9: the queue deduplicates by key.  A key added N >= 1 times since it was
\* last handed out is pending exactly once: in the queue when no worker is
\* processing it, held back (dirty, not in the queue) while a worker is, so
\* that its one further processing starts only after the current one
\* finishes; a key not added since it was handed out is not pending at all.
QueueDedup ==
    \A key \in Keys :
        /\ Count(queue, key) <= 1
        /\ BeingProcessed(key) => Count(queue, key) = 0
        /\ (addsSinceGet[key] >= 1 /\ ~BeingProcessed(key)) => Count(queue, key) = 1
        /\ (addsSinceGet[key] >= 1 /\ BeingProcessed(key)) => key \in dirty
        /\ addsSinceGet[key] = 0 => (Count(queue, key) = 0 /\ key \notin dirty)

\* C9 witness: a key was added twice while a worker is processing it
QueueDedupWitness ==
    \E key \in Keys :
        /\ BeingProcessed(key)
        /\ addsSinceGet[key] = 2
        /\ key \in dirty
        /\ Count(queue, key) = 0

\* C10: no two workers are inside scale, and so inside decider.Reconcile, for
\* the same key at the same time.
NoConcurrentScale ==
    \A w1 \in Workers, w2 \in Workers :
        (w1 # w2 /\ InScale(w1) /\ InScale(w2)) => worker[w1].key # worker[w2].key

\* C10 witness: two workers are in decider.Reconcile at once, for different
\* keys, while one of the keys has been added again
NoConcurrentScaleWitness ==
    \E w1 \in Workers, w2 \in Workers :
        /\ w1 # w2
        /\ worker[w1].pc = "reconcile"
        /\ worker[w2].pc = "reconcile"
        /\ worker[w1].key # worker[w2].key
        /\ worker[w1].key \in dirty

(***************************************************************************)
(* Properties of the gateway relay and the pod dispatcher (SpecGW)         *)
(***************************************************************************)

\* the responses on the external output whose Source is request id
ResponsesTo(id) ==
    {i \in 1..Len(externalOutput) : externalOutput[i].Source.ID = id}

Responded(id) == ResponsesTo(id) # {}

\* the Dispatch calls that hold a token of endpoint e: popped from the FIFO
\* and not yet pushed back
Holding(e) ==
    {r \in ReqIDs : disp[r].pc \in {"lookup", "execute", "pushToken"} /\ disp[r].key = e}

\* the Dispatch calls that hold a token of any endpoint
Holders == {r \in ReqIDs : disp[r].pc \in {"lookup", "execute", "pushToken"}}

\* the tokens of endpoint e: in the FIFO or held by a Dispatch call
TokensOf(e) == Count(tokens, e) + Cardinality(Holding(e))

ReconcileCompleted == rec.pc = "idle" /\ nRec >= 1

\* C1: at most one response whose Source is a given request is ever published
\* on the external output, under every interleaving of the relay, the
\* Dispatch goroutines and the Reconcile calls.
AtMostOneResponse ==
    \A id \in ReqIDs : Cardinality(ResponsesTo(id)) <= 1

\* C1 witness: every request was answered, one of them by a backend, after
\* the endpoint set changed at least twice
AtMostOneResponseWitness ==
    /\ nRec >= 2
    /\ everRemoved # {}
    /\ \A id \in ReqIDs : Responded(id)
    /\ \E i \in 1..Len(externalOutput) : externalOutput[i].Status \in ExecStatuses

\* C2 (as claimed): while the root context is not cancelled, every request
\* enqueued on the external input eventually yields a response on the
\* external output.
EveryRequestAnswered ==
    \A id \in ReqIDs : (nextReq > id) ~> (Responded(id) \/ ctxDone)

\* C3 (as claimed): for every endpoint identity, in every reachable state, the
\* identity's tokens in the FIFO plus the Dispatch calls holding one of them
\* are at most serviceConcurrency.
TokenCap ==
    \A e \in Pods : TokensOf(e) <= podServiceConcurrency

\* C4 (as claimed): once Reconcile has completed, the tokens in the FIFO plus
\* the Dispatch calls holding a token equal serviceConcurrency times the
\* number of endpoints.
TokenConservationOfAllTokens ==
    ReconcileCompleted =>
        Len(tokens) + Cardinality(Holders)
            = podServiceConcurrency * Cardinality(endpoints)

\* C4 (amended): once Reconcile has completed, every current endpoint has at
\* least serviceConcurrency tokens in the FIFO or held by Dispatch calls, for
\* any number of concurrent Dispatch calls and any response status; and as
\* long as no Reconcile has removed an endpoint, the tokens in the FIFO plus
\* the held ones equal serviceConcurrency times the number of endpoints.
TokenConservation ==
    ReconcileCompleted =>
        /\ \A e \in endpoints : TokensOf(e) >= podServiceConcurrency
        /\ everRemoved = {} =>
              /\ \A e \in Pods : TokensOf(e) =
                    IF e \in endpoints THEN podServiceConcurrency ELSE 0
              /\ Len(tokens) + Cardinality(Holders)
                    = podServiceConcurrency * Cardinality(endpoints)

\* C4 witness: Reconcile has completed, two endpoints are live, a Dispatch
\* call has pushed its token back and another holds one
TokenConservationWitness ==
    /\ ReconcileCompleted
    /\ Cardinality(endpoints) = 2
    /\ \E r \in ReqIDs : disp[r].pc \in {"sendRes", "done"} /\ disp[r].status \in ExecStatuses
    /\ \E r \in ReqIDs : disp[r].pc = "execute"

\* C8: the ReqOut hook calls made by the relay never exceed the ReqIn hook
\* calls made before them (an INVALID_TARGET response triggers neither), so
\* the target's RequestStats.concurrency is never negative.
HooksBalanced ==
    /\ nReqOut <= nReqIn
    /\ stats.concurrency = nReqIn - nReqOut
    /\ stats.concurrency >= 0

\* C8 witness: a ReqOut hook has run and an INVALID_TARGET response is on the
\* external output
HooksBalancedWitness ==
    /\ nReqOut >= 1
    /\ \E i \in 1..Len(externalOutput) : externalOutput[i].Status = "INVALID_TARGET"

(***************************************************************************)
(* Scaling from zero (SpecKPA)                                             *)
(***************************************************************************)

\* C11: every Reconcile with currentReady = 0 and instant concurrency > 0
\* returns a desired of at least 1, also when the stable and the panic window
\* averages are both 0; in that case, outside panic and without a delay
\* window, the desired is exactly 1.
ScaleFromZeroKick ==
    (kpaLast.called /\ kpaLast.currentReady = 0 /\ kpaLast.instant > 0) =>
        /\ desiredScale >= 1
        /\ (kpaLast.dspc = 0 /\ kpaLast.dppc = 0 /\ panicTime = 0
              /\ ~HasDelayWindow(delayWindow)) => desiredScale = 1

\* C11 witness: a Reconcile from zero ready pods with instant concurrency and
\* empty windows, in stable mode and without delay window, returned 1
ScaleFromZeroKickWitness ==
    /\ kpaLast.called
    /\ kpaLast.currentReady = 0
    /\ kpaLast.instant > 0
    /\ kpaLast.dspc = 0
    /\ kpaLast.dppc = 0
    /\ panicTime = 0
    /\ ~HasDelayWindow(delayWindow)
    /\ desiredScale = 1

(***************************************************************************)
(* ReqOut without a matching ReqIn (SpecStats)                             *)
(***************************************************************************)

\* C12 (as claimed): a ReqOut on a RequestStats whose concurrency is 0 does
\* not return normally, and concurrency is never negative.
ReqOutFailsLoudly ==
    /\ stats.concurrency >= 0
    /\ ~(lastOp.op = "ReqOut" /\ lastOp.before.concurrency = 0)

(***************************************************************************)
(* Failure responses of the dispatcher and of the relay (SpecGW)           *)
(***************************************************************************)

\* the responses on the internal output whose Source is request id
InternalResponsesTo(id) ==
    {i \in 1..Len(internalOutput) : internalOutput[i].Source.ID = id}

\* the responses to request id that exist, relayed or not
NumResponsesTo(id) ==
    Cardinality(InternalResponsesTo(id)) + Cardinality(ResponsesTo(id))

TimeoutResponse(r) == [Source |-> [ID |-> r, Target |-> Key], Status |-> "FAIL_TIMEOUT"]

\* C13: a Dispatch whose wait for a token ended by the timeout holds no token
\* and has no response yet; its next step sends the FAIL_TIMEOUT response of
\* its request to the internal output, ends the Dispatch and leaves the token
\* FIFO alone (no executor is called, no token pushed); a Dispatch that has
\* ended has produced exactly one response.
DispatchTimeoutResponse ==
    /\ [](\A r \in ReqIDs :
            /\ disp[r].pc = "timeout" => (disp[r].key = Nil /\ NumResponsesTo(r) = 0)
            /\ disp[r].pc = "done" => NumResponsesTo(r) = 1)
    /\ [][\A r \in ReqIDs :
            /\ (disp[r].pc = "dispatch" /\ disp'[r].pc = "timeout") => tokens' = tokens
            /\ (disp[r].pc = "timeout" /\ disp'[r] # disp[r]) =>
                  /\ disp'[r].pc = "done"
                  /\ internalOutput' = Append(internalOutput, TimeoutResponse(r))
                  /\ tokens' = tokens
                  /\ endpoints' = endpoints]_vars

\* C13 witness: a PodDispatcher that never had an endpoint has answered a
\* request FAIL_TIMEOUT, and the relay has passed the response on
DispatchTimeoutResponseWitness ==
    /\ nRec = 0
    /\ endpoints = {}
    /\ tokens = <<>>
    /\ \E r \in ReqIDs :
        /\ disp[r].pc = "done"
        /\ \E i \in ResponsesTo(r) : externalOutput[i] = TimeoutResponse(r)

\* the Dispatch goroutines that have not yet sent their response
ActiveDispatches == {r \in ReqIDs : disp[r].pc \notin {"none", "done"}}

\* the responses on the external output that are not INVALID_TARGET
RelayedResponses ==
    {i \in 1..Len(externalOutput) : externalOutput[i].Status # "INVALID_TARGET"}

\* C14: when relay dequeues a request whose Target differs from its key, that
\* step puts exactly one INVALID_TARGET response for it on the external output,
\* calls no hook and forwards nothing to the internal input.  Nothing behind
\* the relay ever holds such a request: every request in the internal input
\* and every response in the internal output is addressed to the key, each
\* ReqOut hook call matches a request that went through ReqIn, and a
\* mis-addressed request has no other response than its one INVALID_TARGET.
InvalidTargetBypass ==
    /\ [](/\ \A i \in 1..Len(internalInput) : internalInput[i].Target = Key
          /\ \A i \in 1..Len(internalOutput) : internalOutput[i].Source.Target = Key
          /\ nReqIn = Len(internalInput) + Cardinality(ActiveDispatches)
                        + Len(internalOutput) + nReqOut
          /\ Cardinality(RelayedResponses) = nReqOut
          /\ \A i \in 1..Len(externalOutput) :
                /\ (externalOutput[i].Source.Target # Key)
                       <=> (externalOutput[i].Status = "INVALID_TARGET")
                /\ Cardinality(ResponsesTo(externalOutput[i].Source.ID)) = 1
                /\ externalOutput[i].Status = "INVALID_TARGET" =>
                       /\ InternalResponsesTo(externalOutput[i].Source.ID) = {}
                       /\ disp[externalOutput[i].Source.ID].pc = "none")
    /\ [][(/\ externalInput # <<>>
           /\ externalInput' = Tail(externalInput)
           /\ Head(externalInput).Target # Key) =>
              /\ externalOutput' = Append(externalOutput,
                      [Source |-> Head(externalInput), Status |-> "INVALID_TARGET"])
              /\ internalInput' = internalInput
              /\ internalOutput' = internalOutput
              /\ UNCHANGED <<stats, nReqIn, nReqOut, disp>>]_vars

\* C14 witness: one request was answered INVALID_TARGET and another, addressed
\* to the key, went through both hooks
InvalidTargetBypassWitness ==
    /\ nReqIn = 1
    /\ nReqOut = 1
    /\ \E i \in 1..Len(externalOutput) :
        /\ externalOutput[i].Status = "INVALID_TARGET"
        /\ externalOutput[i].Source.Target # Key
    /\ RelayedResponses # {}

(***************************************************************************)
(* Properties of the relay goroutines (SpecRelay)                          *)
(***************************************************************************)
\* the records of ReqIn hook calls for requests addressed to `key`
ReqInLog(key) ==
    SelectSeq(hookLog, LAMBDA e : e.hook = "ReqIn" /\ e.target = key)

\* the ReqIn hook call for request `id` has returned
ReqInReturned(id) ==
    \E i \in 1..Len(hookLog) :
        hookLog[i].hook = "ReqIn" /\ hookLog[i].ev = "return" /\ hookLog[i].id = id

\* the requests of `key` that relay has sent to the internal input
Forwarded(key) ==
    {rInternalInputs[key][i].ID : i \in 1..Len(rInternalInputs[key])}
        \cup {rInternalOutputs[key][i].Source.ID : i \in 1..Len(rInternalOutputs[key])}
        \cup {rExternalOutput[i].Source.ID : i \in
                 {j \in 1..Len(rExternalOutput) :
                     /\ rExternalOutput[j].Status # "INVALID_TARGET"
                     /\ rExternalOutput[j].Source.Target = key}}

\* C15: for one target the ReqIn hook calls do not overlap and follow the
\* order in which the requests were dequeued from the external input (a
\* client numbers its requests in the order it sends them, so on one channel
\* the smaller ID is dequeued first): the hook records of one target read
\* enter a, return a, enter b, return b, ... with a < b; and a request is sent
\* to the internal input only after its ReqIn hook call has returned.
ReqInHookOrder ==
    \A key \in RelayKeys :
        /\ \A i \in 1..Len(ReqInLog(key)) :
              /\ ReqInLog(key)[i].ev = (IF i % 2 = 1 THEN "enter" ELSE "return")
              /\ i % 2 = 0 => ReqInLog(key)[i].id = ReqInLog(key)[i - 1].id
              /\ (i % 2 = 1 /\ i > 1) => ReqInLog(key)[i - 2].id < ReqInLog(key)[i].id
        /\ \A id \in Forwarded(key) : ReqInReturned(id)
        /\ relayPc[key] = "forward" => ReqInReturned(relayReq[key].ID)

\* C15 witness: two requests of one target went through the hook and were
\* forwarded, and a hook call of the other target ran between their calls
ReqInHookOrderWitness ==
    \E i, j, l \in 1..Len(hookLog) :
        /\ i < j /\ j < l
        /\ hookLog[i].hook = "ReqIn" /\ hookLog[i].ev = "return"
        /\ hookLog[l].hook = "ReqIn" /\ hookLog[l].ev = "return"
        /\ hookLog[i].target = hookLog[l].target
        /\ hookLog[i].id # hookLog[l].id
        /\ hookLog[j].hook = "ReqIn" /\ hookLog[j].target # hookLog[i].target
        /\ {hookLog[i].id, hookLog[l].id} \subseteq Forwarded(hookLog[i].target)

(***************************************************************************)
(* Properties of autoscalerImpl: Run, tickers, hooks and failures (SpecAS) *)
(***************************************************************************)
\* C16: when Run has returned, the context has ended, the work queue is shut
\* down and every worker goroutine Run started has left its loop.
RunReturnsAfterWorkersExit ==
    runReturned =>
        /\ asCtxDone
        /\ shuttingDown
        /\ \A w \in Workers : worker[w].pc = "exited"

\* C17: for each key the ticker goroutine and the collector goroutine are
\* started by the one ReqIn whose Activate wins the compare-and-swap on
\* `active`, which is the first ReqIn for the key: a key has one ticker when it
\* is active and none before, `active` never goes back, and a ticker is started
\* in exactly the steps that set `active`.  Until then the key is not in the
\* work queue, no worker holds it and Reconcile has not been called for it.
OneTickerPerKey ==
    /\ [](\A key \in Keys :
            /\ nTickers[key] = (IF active[key] THEN 1 ELSE 0)
            /\ ~active[key] =>
                  /\ Count(queue, key) = 0
                  /\ key \notin dirty \cup processing
                  /\ addsSinceGet[key] = 0
                  /\ \A w \in Workers : worker[w].key # key
                  /\ asDesired[key] = 0)
    /\ [][\A key \in Keys :
            /\ active[key] => active'[key]
            /\ (~active[key] /\ active'[key]) <=> (nTickers'[key] = nTickers[key] + 1)
            /\ nTickers'[key] \in {nTickers[key], nTickers[key] + 1}]_vars

\* C17 witness: k1 had its first ReqIn, its one ticker runs, a worker is in
\* Reconcile for it and it was added again meanwhile; k2 is still dormant
OneTickerPerKeyWitness ==
    /\ active["k1"] /\ nTickers["k1"] = 1 /\ ~tickerExited["k1"]
    /\ ~active["k2"] /\ nTickers["k2"] = 0
    /\ \E w \in Workers : worker[w].pc = "reconcile" /\ worker[w].key = "k1"
    /\ "k1" \in dirty

\* C18: in synchronous mode a ReqIn that finds the decider's desired scale at
\* 0 calls queue.Add(key) in the same call: unless the queue is already shut
\* down the key is marked dirty when ReqIn returns, and it is in the queue
\* unless a worker holds it.  A ReqIn in asynchronous mode, or one that finds a
\* desired scale above 0, leaves the queue as it is; in asynchronous mode a key
\* becomes dirty only by a tick of its ticker.
ColdStartKick ==
    [][\A key \in Keys :
        /\ (ASReqIn(key) /\ asStarted /\ ~asAsync /\ asDesired[key] = 0) =>
              /\ TheQueue' = QueueAdd(TheQueue, key)
              /\ ~shuttingDown =>
                    /\ key \in dirty'
                    /\ Count(queue', key) = 1 \/ key \in processing'
        /\ (ASReqIn(key) /\ (asAsync \/ asDesired[key] # 0)) =>
              UNCHANGED <<queue, dirty, processing, shuttingDown, addsSinceGet>>
        /\ (asAsync /\ key \notin dirty /\ key \in dirty') => Tick(key)]_vars

\* C18 witness: synchronous mode, the first ReqIn for k1 found desired scale 0
\* and k1 is queued by that one Add, before any tick
ColdStartKickWitness ==
    /\ ~asAsync /\ asStarted /\ ~shuttingDown
    /\ active["k1"] /\ asDesired["k1"] = 0
    /\ queue = <<"k1">> /\ dirty = {"k1"} /\ processing = {}
    /\ addsSinceGet["k1"] = 1

\* C19: a worker ends the process only when its scale call failed with the
\* storage failure; a failure because the target is being torn down and a
\* transient cluster failure never do, whatever the key.
PanicOnlyOnCorruption ==
    \A w \in Workers :
        /\ worker[w].pc = "panic" => worker[w].failure = "corruption"
        /\ worker[w].failure \in {"teardown", "transient"} => worker[w].pc = "finish"

ShutdownCompletes ==
    /\ [](asCtxDone =>
            <>[](asCrashed \/ (/\ \A w \in Workers : worker[w].pc = "exited"
                               /\ \A k \in Keys : nTickers[k] > 0 => tickerExited[k])))
    /\ [](collCtxDone => <>[](collector # "running"))
    /\ [](ctxDone => <>[](crashed \/ (relayExited /\ pdExited)))
    /\ [][pdExited =>
            /\ pdExited'
            /\ \A r \in ReqIDs : disp[r].pc = "none" => disp'[r].pc = "none"]_vars

\* C22 witness: the context was cancelled while a key was active; Run has
\* returned, the three workers have left their loops and the ticker is gone
ShutdownCompletesWitness ==
    /\ asCtxDone /\ runReturned /\ ~asCrashed
    /\ \A w \in Workers : worker[w].pc = "exited"
    /\ active["k1"] /\ nTickers["k1"] = 1 /\ tickerExited["k1"]


(***************************************************************************)
(* Properties of RequestStats over the calls since the last Report         *)
(* (SpecStats)                                                             *)
(***************************************************************************)

\* C23 as stated: after a Report that left concurrency 0, K ReqIn calls, then
\* K ReqOut calls and one more Report leave the RequestStats identical to the
\* state the first Report left.
RoundTripIdentical ==
    [][((DoReport \/ Collect) /\ RoundTrip(sinceReport)) =>
            stats' = sinceReport.start]_vars

\* C23, amended: the round trip restores concurrency, concurrencyIntegral,
\* requestCount and secondsInUse; lastChange is not restored, it is the latest
\* time any call of the trip brought (never before the starting lastChange),
\* so the state is identical exactly when no call came at a later time.
RoundTripButLastChange ==
    [][((DoReport \/ Collect) /\ RoundTrip(sinceReport)) =>
            /\ [stats' EXCEPT !.lastChange = sinceReport.start.lastChange]
                 = sinceReport.start
            /\ stats'.lastChange = Max(stats.lastChange, lastOp'.now)
            /\ stats'.lastChange >= sinceReport.start.lastChange]_vars

RoundTripButLastChangeWitness ==
    /\ sinceReport.trip >= 2
    /\ sinceReport.ins = 0 /\ sinceReport.outs = 0
    /\ lastOp.op = "Report"
    /\ stats = sinceReport.start
    /\ stats.lastChange > lastOp.before.lastChange


\* C24: Report(now) returns requestCount = the number of ReqIn calls since the
\* previous Report and averageConcurrency = integral / secondsElapsed as
\* accumulated since the previous Report and advanced to now (0 when no time
\* elapsed); it leaves integral, requestCount and secondsElapsed at zero and
\* concurrency as it was.
ReportReturnsAndResets ==
    [][(DoReport \/ Collect) =>
        LET now == lastOp'.now
            ret == lastOp'.ret
            dt == IF stats.lastChange # 0 /\ now > stats.lastChange
                  THEN now - stats.lastChange ELSE 0
            integral == stats.concurrencyIntegral + stats.concurrency * dt
            seconds == stats.secondsInUse + dt
        IN /\ ret.RequestCount = sinceReport.ins
           /\ ret.AverageDen > 0
           /\ IF seconds = 0 THEN ret.AverageNum = 0
              ELSE ret.AverageNum * seconds = integral * ret.AverageDen
           /\ stats'.concurrencyIntegral = 0
           /\ stats'.requestCount = 0
           /\ stats'.secondsInUse = 0
           /\ stats'.concurrency = stats.concurrency]_vars

ReportReturnsAndResetsWitness ==
    /\ lastOp.op = "Report" /\ sinceReport.reported
    /\ sinceReport.ins = 0 /\ sinceReport.outs = 0
    /\ lastOp.ret.RequestCount >= 1 /\ lastOp.ret.RequestCount < nReqIn
    /\ lastOp.ret.AverageNum > lastOp.ret.AverageDen
    /\ lastOp.before.concurrencyIntegral < lastOp.ret.AverageNum
    /\ stats.concurrency >= 1 /\ stats.concurrencyIntegral = 0


\* C29 as stated: every ReqIn, ReqOut and Report at time now first advances
\* the integral, for every now: an unset lastChange becomes now; otherwise
\* the integral grows by concurrency * (now - lastChange), secondsInUse by
\* now - lastChange, and lastChange becomes now, also when now is not later
\* than lastChange.  (After a Report the accumulators are reset, so there the
\* advance shows in lastChange and in the reported average.)
AdvanceForEveryNow ==
    [][(DoReqIn \/ DoReqOut \/ DoReport \/ Collect) =>
        LET now == lastOp'.now
            dt == IF stats.lastChange = 0 THEN 0 ELSE now - stats.lastChange
            integral == stats.concurrencyIntegral + stats.concurrency * dt
            seconds == stats.secondsInUse + dt
        IN /\ stats'.lastChange = now
           /\ IF lastOp'.op = "Report"
              THEN seconds > 0 =>
                     lastOp'.ret.AverageNum * seconds
                        = integral * lastOp'.ret.AverageDen
              ELSE /\ stats'.concurrencyIntegral = integral
                   /\ stats'.secondsInUse = seconds]_vars

\* C29, amended: the advance happens only for a now later than lastChange;
\* for a now equal to or earlier than lastChange nothing is advanced and
\* lastChange keeps its value.
AdvanceOnlyForward ==
    [][(DoReqIn \/ DoReqOut \/ DoReport \/ Collect) =>
        LET now == lastOp'.now
            dt == IF stats.lastChange # 0 /\ now > stats.lastChange
                  THEN now - stats.lastChange ELSE 0
            integral == stats.concurrencyIntegral + stats.concurrency * dt
            seconds == stats.secondsInUse + dt
        IN /\ stats'.lastChange =
                IF stats.lastChange = 0 THEN now ELSE Max(stats.lastChange, now)
           /\ IF lastOp'.op = "Report"
              THEN /\ seconds > 0 =>
                        lastOp'.ret.AverageNum * seconds
                           = integral * lastOp'.ret.AverageDen
                   /\ seconds = 0 => lastOp'.ret.AverageNum = 0
              ELSE /\ stats'.concurrencyIntegral = integral
                   /\ stats'.secondsInUse = seconds]_vars

AdvanceOnlyForwardWitness ==
    /\ lastOp.op = "Report"
    /\ sinceReport.reported /\ sinceReport.ins = 0 /\ sinceReport.outs = 0
    /\ lastOp.now < lastOp.before.lastChange
    /\ lastOp.before.concurrency >= 1 /\ lastOp.before.secondsInUse >= 1
    /\ stats.lastChange = lastOp.before.lastChange
    /\ lastOp.ret.AverageNum = lastOp.before.concurrencyIntegral


(***************************************************************************)
(* Properties of KPADecider.Reconcile: entering, extending and leaving     *)
(* panic (SpecKPA)                                                         *)
(***************************************************************************)

PanicTimeIsLastOver ==
    /\ [](kpaLast.called =>
            /\ (kpaLast.dppc * kpaCfg.panicThreshold[2]
                  >= kpaCfg.panicThreshold[1] * Max(1, kpaLast.currentReady))
                 => panicTime = kpaLast.now
            /\ panicTime <= kpaLast.now)
    /\ [][(kpaLast'.called /\ panicTime' # 0
           /\ kpaLast'.dppc * kpaCfg.panicThreshold[2]
                < kpaCfg.panicThreshold[1] * Max(1, kpaLast'.currentReady))
             => panicTime' = panicTime]_vars

\* a refresh: a panic begun earlier, extended by the last call, which came
\* with pods ready
PanicTimeIsLastOverWitness ==
    /\ kpaLast.called /\ kpaLast.currentReady >= 1
    /\ kpaLast.dppc * kpaCfg.panicThreshold[2]
         >= kpaCfg.panicThreshold[1] * kpaLast.currentReady
    /\ panicTime = kpaLast.now /\ panicTime >= 2
    /\ maxPanicPods > kpaLast.preDelay - 1
    /\ maxPanicPods > kpaLast.dppc


\* C27: a Reconcile that leaves panicTime set has raised maxPanicPods to
\* max(maxPanicPods, desiredStable, desiredPanic), the two desires being the
\* clamped pod counts of the call, and returns a value that is not below that
\* candidate; without a delay window it returns maxPanicPods, which is then
\* not below the value returned by the call before it in the same panic
\* episode.
PanicModeKeepsMaximum ==
    [][(kpaLast'.called /\ panicTime' # 0) =>
        LET ready == Max(1, kpaLast'.currentReady)
            fromZero == kpaLast'.currentReady = 0
            up == Upperbound(kpaCfg, ready, fromZero, kpaLast'.instant)
            low == Lowerbound(kpaCfg, ready, fromZero, kpaLast'.instant)
            candidate == Max(ClampPods(kpaLast'.dspc, low, up),
                             ClampPods(kpaLast'.dppc, low, up))
        IN /\ maxPanicPods' = Max(maxPanicPods, candidate)
           /\ desiredScale' >= candidate
           /\ ~HasDelayWindow(delayWindow) =>
                /\ desiredScale' = maxPanicPods'
                /\ panicTime # 0 => desiredScale' >= desiredScale]_vars

\* a panic begun by an earlier call; the last call, under the threshold and
\* with a smaller candidate, returned the maximum kept
PanicModeKeepsMaximumWitness ==
    /\ kpaLast.called /\ ~HasDelayWindow(delayWindow)
    /\ panicTime # 0 /\ panicTime < kpaLast.now
    /\ kpaLast.currentReady = 2
    /\ desiredScale = maxPanicPods
    /\ maxPanicPods >
         Max(ClampPods(kpaLast.dspc, Lowerbound(kpaCfg, 2, FALSE, kpaLast.instant),
                       Upperbound(kpaCfg, 2, FALSE, kpaLast.instant)),
             ClampPods(kpaLast.dppc, Lowerbound(kpaCfg, 2, FALSE, kpaLast.instant),
                       Upperbound(kpaCfg, 2, FALSE, kpaLast.instant)))

\* C28 as stated: a Reconcile that leaves panicTime unset, without a delay
\* window, returns ceil(stable / targetValue) clamped to [lower, upper] with
\* upper = ceil(maxScaleUpRate * max(1, currentReady)) and
\* lower = floor(max(1, currentReady) / maxScaleDownRate), and leaves
\* maxPanicPods at 0.
StableModeClampsToRates ==
    (kpaLast.called /\ panicTime = 0 /\ ~HasDelayWindow(delayWindow)) =>
        /\ desiredScale =
             Min(Max(kpaLast.dspc, RateFloor(kpaCfg, Max(1, kpaLast.currentReady))),
                 RateCeil(kpaCfg, Max(1, kpaLast.currentReady)))
        /\ maxPanicPods = 0

\* C28, amended: as stated, but when currentReady = 0 and the instant
\* concurrency is positive both bounds are raised to at least 1 before the
\* clamp.
StableModeClampsToBounds ==
    (kpaLast.called /\ panicTime = 0 /\ ~HasDelayWindow(delayWindow)) =>
        LET kick == kpaLast.currentReady = 0 /\ kpaLast.instant > 0
            low0 == RateFloor(kpaCfg, Max(1, kpaLast.currentReady))
            up0 == RateCeil(kpaCfg, Max(1, kpaLast.currentReady))
            low == IF kick THEN Max(low0, 1) ELSE low0
            up == IF kick THEN Max(up0, 1) ELSE up0
        IN /\ desiredScale = Min(Max(kpaLast.dspc, low), up)
           /\ maxPanicPods = 0

\* stable mode from zero pods with a request in flight and no stable
\* concurrency yet: the raised lower bound decides
StableModeClampsToBoundsWitness ==
    /\ kpaLast.called /\ panicTime = 0 /\ ~HasDelayWindow(delayWindow)
    /\ kpaLast.currentReady = 0 /\ kpaLast.instant > 0
    /\ kpaLast.dspc = 0 /\ kpaLast.dppc <= 1
    /\ desiredScale = 1 /\ maxPanicPods = 0
    /\ kpaNow >= 2


(***************************************************************************)
(* Properties of PodDispatcher.dispatch (SpecGW)                           *)
(***************************************************************************)

\* C30: when the lookup of a popped token finds its identity absent from
\* endpoints, the token is discarded: the Dispatch does not go on to Execute
\* with it, does not keep it and does not push it back to the FIFO, sends no
\* response, and is back at the select that takes the next token.
RemovedTokenDiscarded ==
    [][\A r \in ReqIDs :
          (/\ disp[r].pc = "lookup" /\ disp'[r] # disp[r]
           /\ disp[r].key \notin endpoints) =>
              /\ disp'[r] = [pc |-> "dispatch", key |-> Nil, status |-> Nil]
              /\ tokens' = tokens
              /\ internalOutput' = internalOutput]_vars

\* a token of a removed endpoint is gone from the FIFO and from every
\* Dispatch, and a Dispatch executes on a live endpoint
RemovedTokenDiscardedWitness ==
    /\ rec.pc = "idle"
    /\ \E e \in everRemoved :
          /\ e \notin endpoints
          /\ TokensOf(e) < podServiceConcurrency
    /\ \E r \in ReqIDs : disp[r].pc = "execute" /\ disp[r].key \in endpoints


(***************************************************************************)
(* Properties of PodDispatcher.Reconcile (SpecGW)                          *)
(***************************************************************************)

\* C31: when Reconcile(readyPods) returns, endpoints holds exactly the
\* identities of readyPods that were there before or whose executor was
\* constructed; the call pushed exactly podServiceConcurrency tokens for each
\* identity it added, none for an identity already present and none for one
\* whose construction failed, and it returns one error per failed
\* construction; a token is pushed only for an identity that is in endpoints.
ReconcileResult ==
    [][/\ ReconcileReturn =>
            /\ endpoints = (rec.ready \cap rec.before)
                             \cup ((rec.ready \ rec.before) \ rec.failed)
            /\ rec.failed \subseteq rec.ready \ rec.before
            /\ rec.errs = Cardinality(rec.failed)
            /\ \A e \in Pods :
                  rec.pushed[e] =
                     IF e \in (rec.ready \ rec.before) \ rec.failed
                     THEN podServiceConcurrency ELSE 0
       /\ \A e \in Pods :
            (rec.pc = "run" /\ rec'.pc = "run" /\ rec'.pushed[e] > rec.pushed[e]) =>
                /\ e \in endpoints
                /\ tokens' = Append(tokens, e)]_vars

\* a Reconcile about to return that kept one endpoint and failed to construct
\* the other, after an earlier call that had added the kept one
ReconcileResultWitness ==
    /\ rec.pc = "run" /\ rec.add = {} /\ rec.del = {}
    /\ \A e \in Pods : rec.pushLeft[e] = 0
    /\ nRec >= 2
    /\ rec.ready = {"A", "B"} /\ rec.before = {"A"} /\ rec.failed = {"B"}
    /\ endpoints = {"A"}


(***************************************************************************)
(* Properties of autoscalerImpl.scale and processNextItem (SpecAS)         *)
(***************************************************************************)

\* C32: a worker enters decider.Reconcile only from the cluster read of the
\* same dequeued key, and scaler.Scale only from that Reconcile, with the
\* desired it returned; a failed cluster read ends scale without Reconcile and
\* without Scale and leaves the decider as it was; the stored desired changes
\* only in a worker's Reconcile.
ReadReconcileScaleInOrder ==
    [][/\ \A w \in Workers :
            /\ (worker'[w].pc = "reconcile" /\ worker[w].pc # "reconcile") =>
                  /\ worker[w].pc = "scale" /\ worker'[w].key = worker[w].key
                  /\ worker'[w].failure = Nil /\ worker'[w].desired = -1
            /\ (worker'[w].pc = "scaleCall" /\ worker[w].pc # "scaleCall") =>
                  /\ worker[w].pc = "reconcile" /\ worker'[w].key = worker[w].key
                  /\ worker'[w].desired = asDesired'[worker[w].key]
            /\ (worker[w].pc = "scale" /\ worker'[w].pc \notin {"scale", "reconcile"}) =>
                  /\ worker'[w].pc \in {"finish", "panic"}
                  /\ worker'[w].failure # Nil /\ worker'[w].desired = -1
                  /\ asDesired' = asDesired /\ kpaVars' = kpaVars
       /\ asDesired' # asDesired =>
            \E w \in Workers : worker[w].pc = "reconcile" /\ worker'[w].pc = "scaleCall"]_vars

\* a cluster read has failed for one worker, which made no Reconcile, while
\* another worker is inside Scale with the desired its Reconcile returned
ReadReconcileScaleInOrderWitness ==
    \E w, v \in Workers :
        /\ worker[w].pc = "finish" /\ worker[w].failure = "transient"
        /\ worker[w].desired = -1
        /\ worker[v].pc = "scaleCall" /\ worker[v].desired = 1
        /\ asDesired[worker[v].key] = 1 /\ asDesired[worker[w].key] = 0

\* C33: when scale(key) has failed without the panic, the worker's return
\* marks the key done and does not add it: afterwards the key is in the queue
\* only if an Add came while it was processed, and the worker is back at Get;
\* every accepted Add is a tick's or a ReqIn's.
FailedScaleNotRequeued ==
    [][/\ \A w \in Workers :
            (worker[w].pc = "finish" /\ worker[w].failure # Nil
             /\ worker'[w].pc # "finish") =>
                /\ worker'[w].pc = "get"
                /\ worker[w].key \notin processing'
                /\ Count(queue', worker[w].key)
                     = IF addsSinceGet[worker[w].key] > 0 THEN 1 ELSE 0
                /\ worker[w].key \notin dirty' \/ addsSinceGet[worker[w].key] > 0
       /\ \A k \in Keys :
            (addsSinceGet'[k] > addsSinceGet[k] \/ Count(queue', k) > Count(queue, k)) =>
                \/ Tick(k)
                \/ ASReqIn(k)
                \/ \E w \in Workers :
                      worker[w].pc = "finish" /\ worker[w].key = k
                      /\ addsSinceGet[k] > 0]_vars

\* a scale has failed for a key that nothing has added since it was handed
\* out: its worker is about to mark it done
FailedScaleNotRequeuedWitness ==
    \E w \in Workers :
        /\ worker[w].pc = "finish" /\ worker[w].failure = "teardown"
        /\ worker[w].desired = 1
        /\ addsSinceGet[worker[w].key] = 0
        /\ worker[w].key \notin dirty /\ Count(queue, worker[w].key) = 0
        /\ queue # <<>>


\* ---------------------------------------------------------------------------
\* Properties of k8sGateway.Start, relay and Dispatch under concurrency (SpecGW)
\* ---------------------------------------------------------------------------

\* C35: after k8sGateway.Start no relay calls the autoscaler's ReqIn or ReqOut
\* before autoscalerImpl.Run has stored its run context, so the "autoscaler not
\* started" panic never ends the process, also when a request is already
\* waiting in the external input at Start.
HooksOnlyAfterRun ==
    /\ ~crashed
    /\ (nReqIn > 0 \/ nReqOut > 0) => runCtx

\* C36: under every interleaving of Dispatch and Reconcile, the Execute call
\* of a Dispatch is made on an executor that is still in the endpoints map:
\* never after a Reconcile has deleted the endpoint and started its Close.
NoExecuteAfterRemoval ==
    [][\A r \in ReqIDs : DispatchExecute(r) => disp[r].key \in endpoints]_vars

\* the requests the relay has passed to the dispatcher: waiting in the
\* internal input, held by a Dispatch, or answered on the internal output
Accepted ==
    {internalInput[i].ID : i \in 1..Len(internalInput)}
        \cup {r \in ReqIDs : disp[r].pc \notin {"none", "done"}}
        \cup {internalOutput[i].Source.ID : i \in 1..Len(internalOutput)}

\* C37: when the relay has returned on the cancelled root context, every
\* request it had passed to the dispatcher has its response on the external
\* output: no accepted request loses its response at shutdown.
AcceptedAnsweredAtShutdown ==
    relayExited => \A id \in Accepted : Responded(id)


\* ---------------------------------------------------------------------------
\* Properties of grpcBackend's connection pool (FairSpecGrpc)
\* ---------------------------------------------------------------------------

\* C34: the entries waiting in the connection pool plus the entries checked
\* out by running Execute calls never exceed the size set at construction,
\* grpcExecutorConcurrency, however many Execute calls run at once.
PoolBounded ==
    connectionPool + checkedOut <= grpcExecutorConcurrency

\* C40: once the goroutine of Close has been started for a removed endpoint it
\* closes the pooled connections and returns, with or without Execute calls
\* in flight.
CloseTerminates ==
    (closing = "range") ~> (closing = "returned")


\* ---------------------------------------------------------------------------
\* Properties of KPADecider.Reconcile without load (FairSpecQuiet)
\* ---------------------------------------------------------------------------

\* C39: for an activated target with maxScaleDownRate > 1, when no request is
\* in flight and none arrives and each tick finds as many ready pods as the
\* previous Reconcile returned, the calls eventually return 0, once the panic
\* period and the scale-down delay have run out, and from then on every call
\* returns 0.
QuietScalesToZero ==
    /\ <>[](desiredScale = 0)
    /\ [][(kpaLast'.quiet > 1 /\ desiredScale = 0) => desiredScale' = 0]_vars

\* a quiet tick, the third or a later one, that finds ready pods and steps
\* down to 0 through a delay window, the panic period being over
QuietScalesToZeroWitness ==
    /\ kpaLast.quiet >= 3 /\ kpaLast.currentReady > 0 /\ desiredScale = 0
    /\ HasDelayWindow(delayWindow) /\ kpaCfg.maxScaleDownRate[1] > kpaCfg.maxScaleDownRate[2]
    /\ panicTime = 0 /\ kpaLast.preDelay = 0


\* ---------------------------------------------------------------------------
\* Properties of the cold start in synchronous mode (FairSpecCold)
\* ---------------------------------------------------------------------------

\* C38: in synchronous mode, once a request has arrived at a target that has
\* no ready replica and a stored desired of 0, a worker eventually calls
\* Scale(key, d) with d >= 1 (the reads of the cluster succeed, the request
\* stays in flight, the context is not cancelled).
ColdStartScales ==
    []((~asAsync /\ (active["k1"] \/ (asCrashed /\ ~asStarted)) /\ asDesired["k1"] = 0)
          => <>(\E w \in Workers :
                   /\ worker[w].pc = "scaleCall" /\ worker[w].key = "k1"
                   /\ worker[w].desired >= 1))

====
